---- MODULE Spec2Model ----
(***************************************************************************)
(* Model of the singleflight loader of package crema (loader.go).          *)
(*                                                                         *)
(* Every critical section of shard.mu is one atomic action.  A step that   *)
(* touches only the locals of its own caller or goroutine, and that no     *)
(* other process can disable, is joined to the step that follows it (the   *)
(* choice of a ready select case, the return of the user's loader, the     *)
(* metric calls); the `go` statement is joined to the acquire before it.   *)
(* Every access to a record that the code makes without the lock (the      *)
(* read of inf.ctx by the fetch goroutine, the evaluation of inf.doneCh    *)
(* on entry to the select, the reads of inf.val and inf.err) is made in a  *)
(* step other than the critical sections around it.                        *)
(* Contexts and channels are identified by the number of the newInflight   *)
(* call that made them, so a recycled record carries new identities.       *)
(* What a finished goroutine leaves behind is what the code keeps of it:   *)
(* the fields of the record and the calls the metrics sink received.       *)
(***************************************************************************)
EXTENDS Integers, Sequences, FiniteSets, TLC

\* ---------------------------------------------------------------- bounds
MaxCalls == 3
MaxLiveCalls == 2
MaxRecs == 2
GOMAXPROCS == 4

\* ------------------------------------------------------ program constants
minShardCount == 8
maxShardCount == 32
shardMultiplier == 2

Min(a, b) == IF a < b THEN a ELSE b
Max(a, b) == IF a > b THEN a ELSE b

shardCount == Max(Min(GOMAXPROCS * shardMultiplier, maxShardCount), minShardCount)

\* ---------------------------------------------------------------- domains
Callers == {1, 2}              \* the goroutines that call load
Keys == {"k1", "k2"}
Recs == 1..MaxRecs
Ids == 1..MaxCalls
Zero == 0                     \* V = int: `var zero V`
Vals == {7}                   \* what the user's loader returns as its value
Nil == "nil"
LoaderErrs == {"boom"}
Canceled == "context canceled"
Seeds == {0, 1}               \* a seed under which the keys collide, and one not
NoInf == 0
NoId == 0
ShardIdx == 0..(shardCount - 1)

VARIABLES
    mapHashSeed,  \* the seed maphash.MakeSeed() gave this process
    shards,       \* shards[s][k]: the inflight map of shard s (NoInf = absent)
    rec,          \* the inflight structs, by address
    allocated,    \* the structs made by inflightPool.New so far
    pool,         \* pool[r]: how many times struct r sits in inflightPool
    puts,         \* puts[r]: inflightPool.Put(r) calls since r's last newInflight
    nextId,       \* number of the next newInflight call
    ctxCancelled, \* the load contexts whose cancel function was called
    chClosed,     \* the done channels that are closed
    panicked,     \* a close of a closed or nil channel has happened
    pc,           \* position of each caller inside load
    loc,          \* locals of each caller's current load call
    ctxDone,      \* the caller's own context is done
    ret,          \* what the caller's last load call returned
    calls,        \* number of load calls made so far
    gor,          \* the goroutines spawned by `go func()` in load
    metrics,      \* what the MetricsProvider has been told
    ops,          \* number of direct calls made by the unit harness (SpecUnit)
    maxLoadTimeout, \* the timeout the loader was configured with (0: none)
    ctxExpired,   \* the load contexts whose deadline has passed
    mu,           \* shard.mu of every shard, and the callers blocked in Lock
    direct,       \* the calls of directLoader.load
    codec,        \* the last call made on a binaryCompressionCodec
    redis,        \* a RedisCacheProvider and the server behind it
    noop,         \* the last call made on a NoopCacheProvider
    policy,       \* the last decision of the revalidation policy
    facade        \* a GetOrLoad call of the cache facade

\* The state of the other components of the package.
others == <<direct, codec, redis, noop, policy, facade>>

vars == <<mapHashSeed, shards, rec, allocated, pool, puts, nextId, ctxCancelled,
          chClosed, panicked, pc, loc, ctxDone, ret, calls, gor, metrics, ops,
          maxLoadTimeout, ctxExpired, mu, others>>

\* --------------------------------------------------------------- structs
ZeroInflight ==
    [ctx |-> NoId, cancel |-> NoId, refs |-> 0, val |-> 0, err |-> Nil,
     doneCh |-> NoId, done |-> FALSE, pooled |-> FALSE]

\* The locals of a load call.  use, fetched, fv and ferr are history: the
\* newInflight call whose record the caller acquired, and what the loader
\* started for that record returned, once it has.
NoLoc == [key |-> "k1", inf |-> NoInf, leader |-> FALSE, shard |-> 0,
          doneCh |-> NoId, v |-> 0, err |-> Nil,
          use |-> NoId, fetched |-> FALSE, fv |-> 0, ferr |-> Nil]

NoRet == [path |-> "none", val |-> 0, leader |-> FALSE, err |-> Nil,
          use |-> NoId, fetched |-> FALSE, fv |-> 0, ferr |-> Nil]

NoGoroutine == [pc |-> "exit", inf |-> NoInf, shard |-> 0, key |-> "k1",
                use |-> NoId, loadCtx |-> NoId]

NoMetrics == [loads |-> 0, concurrency |-> 0, least |-> 0]

\* shard.mu when no one holds it; a holder is a caller or a goroutine, with
\* the place it was at when it took the lock.
NoHolder == [by |-> <<"none", 0>>, at |-> "none"]
NoKey == "none"

\* The mutexes of a new loader, and no caller blocked in Lock.
MuInit == [lock |-> [s \in ShardIdx |-> NoHolder], calling |-> [c \in Callers |-> NoKey]]

\* maphash.String(mapHashSeed, key): fixed by the seed, colliding or not.
KeyNum(key) == IF key = "k1" THEN 1 ELSE 2
hashKey(key) == KeyNum(key) * mapHashSeed

shardFor(key) == hashKey(key) % shardCount

LoaderInit ==
    /\ mapHashSeed \in Seeds
    /\ shards = [s \in ShardIdx |-> [k \in Keys |-> NoInf]]
    /\ rec = [r \in Recs |-> ZeroInflight]
    /\ allocated = {}
    /\ pool = [r \in Recs |-> 0]
    /\ puts = [r \in Recs |-> 0]
    /\ nextId = 1
    /\ ctxCancelled = {}
    /\ chClosed = {}
    /\ panicked = FALSE
    /\ pc = [c \in Callers |-> "idle"]
    /\ loc = [c \in Callers |-> NoLoc]
    /\ ctxDone = [c \in Callers |-> FALSE]
    /\ ret = [c \in Callers |-> NoRet]
    /\ calls = 0
    /\ gor = <<>>
    /\ metrics = NoMetrics
    /\ ops = 0
    /\ ctxExpired = {}


\* ------------------------------------------------------------ newInflight
\* A faulty variant: newInflight leaves done and pooled as the last use set them.
newInflightUnreset(id) ==
    [ctx |-> id, cancel |-> id, refs |-> 1, val |-> Zero, err |-> Nil,
     doneCh |-> id, done |-> TRUE, pooled |-> TRUE]

\* The struct newInflight returns for its id-th call (loader.go:77-84).
newInflight(id) ==
    [ctx |-> id, cancel |-> id, refs |-> 1, val |-> Zero, err |-> Nil,
     doneCh |-> id, done |-> FALSE, pooled |-> FALSE]

\* inflightPool.Get(): a struct that sits in the pool, or a new one from New.
PoolGetChoices ==
    {r \in Recs : pool[r] > 0}
        \cup (IF Recs \ allocated = {} THEN {}
              ELSE {CHOOSE r \in Recs \ allocated : \A q \in Recs \ allocated : r <= q})

\* -------------------------------------------------------- acquireInflight
\* A faulty variant: acquireInflight joins whatever entry it finds.
AcquireNeverSupersedes(cur) == FALSE

\* A faulty variant: acquireInflight takes every entry it finds for done.
AcquireAlwaysSupersedes(cur) == TRUE

\* A faulty variant: acquireInflight replaces the entries that are not done.
AcquireSupersedesUnfinished(cur) == rec[cur].doneCh \notin chClosed

\* acquireInflight's test `case <-inf.doneCh` under the lock (loader.go:94-96).
AcquireSupersedes(cur) == rec[cur].doneCh \in chClosed

\* A faulty variant: a caller that joins is told it leads.
JoinLeaderFlagTrue == TRUE

\* The leader flag acquireInflight gives a caller that joins (loader.go:105).
JoinLeaderFlag == FALSE

\* A faulty variant: a caller that joins is not counted.
JoinRefsUnchanged(refs) == refs

\* The refs of a record after one more caller joined it (loader.go:103).
JoinRefs(refs) == refs + 1

\* The goroutine `go func() {...}()` starts for a leader (loader.go:152-159).
NewGoroutine(r, s, key, use) ==
    [pc |-> "start", inf |-> r, shard |-> s, key |-> key, use |-> use,
     loadCtx |-> NoId]

\* A faulty variant: load starts no goroutine.
SpawnNever(leader, g) == gor

\* A faulty variant: a leader starts the goroutine twice.
SpawnTwice(leader, g) == IF leader THEN Append(Append(gor, g), g) ELSE gor

\* A faulty variant: load starts the goroutine whether the caller leads or not.
SpawnAlways(leader, g) == Append(gor, g)

\* `if leader { go func() ... }` (loader.go:152).
SpawnIf(leader, g) == IF leader THEN Append(gor, g) ELSE gor

\* acquireInflight joins the record the map holds for key (loader.go:94-105).
AcquireJoins(key) ==
    LET cur == shards[shardFor(key)][key]
    IN  cur # NoInf /\ ~AcquireSupersedes(cur)

\* The structs acquireInflight(ctx, key) may return: the map's, or Get's.
AcquireChoices(key) ==
    IF AcquireJoins(key) THEN {shards[shardFor(key)][key]} ELSE PoolGetChoices

\* The critical section of acquireInflight(ctx, key) that returns struct r
\* (loader.go:89-112).
acquireInflight(key, r) ==
    IF AcquireJoins(key)
    THEN /\ rec' = [rec EXCEPT ![r].refs = JoinRefs(@)]
         /\ UNCHANGED <<shards, allocated, pool, puts, nextId>>
    ELSE /\ nextId \in Ids
         /\ pool' = [pool EXCEPT ![r] = IF @ > 0 THEN @ - 1 ELSE 0]
         /\ puts' = [puts EXCEPT ![r] = 0]
         /\ allocated' = allocated \cup {r}
         /\ rec' = [rec EXCEPT ![r] = newInflight(nextId)]
         /\ shards' = [shards EXCEPT ![shardFor(key)][key] = r]
         /\ nextId' = nextId + 1

\* load(ctx, key, loader) up to its select: acquireInflight(ctx, key) and the
\* `go` statement of a leader (loader.go:151-159); at most limit calls are made.
LoadCall(c, key, limit) ==
    /\ pc[c] = "idle"
    /\ calls < limit
    /\ calls' = calls + 1
    /\ ctxDone' = [ctxDone EXCEPT ![c] = FALSE]
    /\ ret' = [ret EXCEPT ![c] = NoRet]
    /\ pc' = [pc EXCEPT ![c] = "enter"]
    /\ \E r \in AcquireChoices(key) :
          LET leader == IF AcquireJoins(key) THEN JoinLeaderFlag ELSE TRUE
              use == IF AcquireJoins(key) THEN rec[r].doneCh ELSE nextId
          IN  /\ acquireInflight(key, r)
              /\ loc' = [loc EXCEPT ![c] =
                            [NoLoc EXCEPT !.key = key, !.inf = r, !.leader = leader,
                                          !.shard = shardFor(key), !.use = use]]
              /\ gor' = SpawnIf(leader, NewGoroutine(r, shardFor(key), key, use))
    /\ UNCHANGED <<others, mu, maxLoadTimeout, ctxExpired, mapHashSeed, ctxCancelled, chClosed, panicked, metrics, ops>>

Load(c, key) == LoadCall(c, key, MaxCalls)

\* Entering the select evaluates inf.doneCh, without the lock (loader.go:161-167).
EnterSelect(c) ==
    /\ pc[c] = "enter"
    /\ loc' = [loc EXCEPT ![c].doneCh = rec[loc[c].inf].doneCh]
    /\ pc' = [pc EXCEPT ![c] = "select"]
    /\ UNCHANGED <<others, mu, maxLoadTimeout, ctxExpired, mapHashSeed, shards, rec, allocated, pool, puts, nextId,
                   ctxCancelled, chClosed, panicked, ctxDone, ret, calls, gor, metrics, ops>>

\* A faulty variant: the select does not wait for inf.doneCh.
DoneChAlwaysReady(c) == TRUE

\* A faulty variant: the select has no inf.doneCh case.
DoneChNeverReady(c) == FALSE

\* A faulty variant: the select has no ctx.Done() case.
CtxDoneNeverReady(c) == FALSE

\* The cases of the select that are ready for caller c (loader.go:162, 167).
CtxDoneReady(c) == ctxDone[c]
DoneChReady(c) == loc[c].doneCh \in chClosed

\* -------------------------------------------------------- releaseInflight
\* A faulty variant: no release is taken for the last one.
ReleaseIsLastNever(refs) == FALSE

\* A faulty variant: every release is taken for the last one.
ReleaseIsLastAlways(refs) == TRUE

\* A faulty variant: the release before the last is taken for the last one.
ReleaseIsLastOffByOne(refs) == refs <= 1

\* `if inf.refs <= 0` after the decrement (loader.go:137).
ReleaseIsLast(refs) == refs <= 0

\* A faulty variant: the last release deletes the entry without comparing.
ReleaseDeletesAnyRecord(s, key, r) == TRUE

\* A faulty variant: the last release deletes the entry of another record only.
ReleaseDeletesOnlyOthers(s, key, r) == shards[s][key] # NoInf /\ shards[s][key] # r

\* A faulty variant: the last release leaves the map as it is.
ReleaseNeverDeletes(s, key, r) == FALSE

\* `if current, ok := shard.inflight[key]; ok && current == inf` (loader.go:138).
ReleaseDeletes(s, key, r) == shards[s][key] = r

\* A faulty variant: the last release leaves the pooling to finishInflight.
ReleasePoolsNever(inf) == FALSE

\* A faulty variant: the release does not look at pooled.
ReleasePoolsUnguarded(inf) == inf.done

\* `if inf.done && !inf.pooled` (loader.go:142).
ReleasePools(inf) == inf.done /\ ~inf.pooled

\* The critical section of releaseInflight(key, inf, shard).
releaseInflight(key, r, s) ==
    LET refs == rec[r].refs - 1
        last == ReleaseIsLast(refs)
        put == last /\ ReleasePools(rec[r])
    IN  /\ rec' = [rec EXCEPT ![r].refs = refs,
                              ![r].pooled = IF put THEN TRUE ELSE @]
        /\ shards' = IF last /\ ReleaseDeletes(s, key, r)
                     THEN [shards EXCEPT ![s][key] = NoInf]
                     ELSE shards
        /\ ctxCancelled' = IF last /\ rec[r].cancel # NoId
                           THEN ctxCancelled \cup {rec[r].cancel}
                           ELSE ctxCancelled
        /\ pool' = IF put THEN [pool EXCEPT ![r] = @ + 1] ELSE pool
        /\ puts' = IF put THEN [puts EXCEPT ![r] = @ + 1] ELSE puts

\* A faulty variant: every call that returns a result says it led.
LoadResultClaimsLeader(v, leader, err) ==
    IF err # Nil
    THEN [path |-> "done", val |-> Zero, leader |-> TRUE, err |-> err]
    ELSE [path |-> "done", val |-> v, leader |-> TRUE, err |-> Nil]

\* A faulty variant: load returns the loader's value and no error.
LoadResultDropsError(v, leader, err) ==
    [path |-> "done", val |-> v, leader |-> leader, err |-> Nil]

\* A faulty variant: load returns the loader's value next to its error.
LoadResultKeepsValue(v, leader, err) ==
    [path |-> "done", val |-> v, leader |-> leader, err |-> err]

\* What load returns on the completion path (loader.go:173-179).
LoadResult(v, leader, err) ==
    IF err # Nil
    THEN [path |-> "done", val |-> Zero, leader |-> leader, err |-> err]
    ELSE [path |-> "done", val |-> v, leader |-> leader, err |-> Nil]

\* What load returns on the context path (loader.go:164-166).
CtxResult(leader) ==
    [path |-> "ctx", val |-> Zero, leader |-> leader, err |-> Canceled]

Returned(r, l) ==
    [path |-> r.path, val |-> r.val, leader |-> r.leader, err |-> r.err,
     use |-> l.use, fetched |-> l.fetched, fv |-> l.fv, ferr |-> l.ferr]

\* case <-ctx.Done(): releaseInflight, then return (loader.go:162-166).
SelectCtxDone(c) ==
    /\ pc[c] = "select"
    /\ CtxDoneReady(c)
    /\ releaseInflight(loc[c].key, loc[c].inf, loc[c].shard)
    /\ ret' = [ret EXCEPT ![c] = Returned(CtxResult(loc[c].leader), loc[c])]
    /\ pc' = [pc EXCEPT ![c] = "idle"]
    /\ loc' = [loc EXCEPT ![c] = NoLoc]
    /\ ctxDone' = [ctxDone EXCEPT ![c] = FALSE]
    /\ UNCHANGED <<others, mu, maxLoadTimeout, ctxExpired, mapHashSeed, allocated, nextId, chClosed, panicked, calls, gor,
                   metrics, ops>>

\* case <-inf.doneCh, then v := inf.val; err := inf.err, without the lock
\* (loader.go:167-170).
SelectDoneCh(c) ==
    /\ pc[c] = "select"
    /\ DoneChReady(c)
    /\ loc' = [loc EXCEPT ![c].v = rec[loc[c].inf].val, ![c].err = rec[loc[c].inf].err]
    /\ pc' = [pc EXCEPT ![c] = "release"]
    /\ UNCHANGED <<others, mu, maxLoadTimeout, ctxExpired, mapHashSeed, shards, rec, allocated, pool, puts, nextId,
                   ctxCancelled, chClosed, panicked, ctxDone, ret, calls, gor, metrics, ops>>

\* The completion path: releaseInflight, then return (loader.go:171-179).
ReleaseOnDone(c) ==
    /\ pc[c] = "release"
    /\ releaseInflight(loc[c].key, loc[c].inf, loc[c].shard)
    /\ ret' = [ret EXCEPT ![c] =
                  Returned(LoadResult(loc[c].v, loc[c].leader, loc[c].err), loc[c])]
    /\ pc' = [pc EXCEPT ![c] = "idle"]
    /\ loc' = [loc EXCEPT ![c] = NoLoc]
    /\ ctxDone' = [ctxDone EXCEPT ![c] = FALSE]
    /\ UNCHANGED <<others, mu, maxLoadTimeout, ctxExpired, mapHashSeed, allocated, nextId, chClosed, panicked, calls, gor,
                   metrics, ops>>

\* The caller's own context becomes done (cancel() by whoever owns it).
CancelCtx(c) ==
    /\ pc[c] # "idle"
    /\ ~ctxDone[c]
    /\ ctxDone' = [ctxDone EXCEPT ![c] = TRUE]
    /\ UNCHANGED <<others, mu, maxLoadTimeout, ctxExpired, mapHashSeed, shards, rec, allocated, pool, puts, nextId,
                   ctxCancelled, chClosed, panicked, pc, loc, ret, calls, gor, metrics, ops>>

\* ------------------------------------------------------- the goroutines
GorIds == 1..Len(gor)

\* RecordLoad, then the evaluation of inf.ctx for loader(inf.ctx) (loader.go:154-156).
GoStart(g) ==
    /\ gor[g].pc = "start"
    /\ gor' = [gor EXCEPT ![g].pc = "fetch", ![g].loadCtx = rec[gor[g].inf].ctx]
    /\ metrics' = [metrics EXCEPT !.loads = @ + 1]
    /\ UNCHANGED <<others, mu, maxLoadTimeout, ctxExpired, mapHashSeed, shards, rec, allocated, pool, puts, nextId,
                   ctxCancelled, chClosed, panicked, pc, loc, ctxDone, ret, calls, ops>>

\* A faulty variant: finishInflight pools the record whoever still holds it.
FinishPoolsWithHolders(inf) == ~inf.pooled

\* `if inf.refs <= 0 && !inf.pooled` (loader.go:125).
FinishPools(inf) == inf.refs <= 0 /\ ~inf.pooled

\* The value finishInflight hands to RecordLoadConcurrency (loader.go:119, 131).
FinishRefs(inf) == inf.refs

\* RecordLoadConcurrency(ctx, refs) as the sink sees it: the number of calls
\* and the least value of all calls.
RecordLoadConcurrency(refs) ==
    [metrics EXCEPT !.concurrency = @ + 1,
                    !.least = IF metrics.concurrency = 0 THEN refs ELSE Min(@, refs)]

\* finishInflight(inf, shard, v, err): its critical section and the metric
\* call after the unlock (loader.go:114-132).
finishInflight(r, v, err) ==
    LET put == FinishPools(rec[r])
    IN  /\ rec' = [rec EXCEPT ![r].val = v, ![r].err = err, ![r].done = TRUE,
                              ![r].pooled = IF put THEN TRUE ELSE @]
        /\ panicked' = (panicked \/ rec[r].doneCh \in chClosed \/ rec[r].doneCh = NoId)
        /\ chClosed' = chClosed \cup ({rec[r].doneCh} \ {NoId})
        /\ pool' = IF put THEN [pool EXCEPT ![r] = @ + 1] ELSE pool
        /\ puts' = IF put THEN [puts EXCEPT ![r] = @ + 1] ELSE puts
        /\ metrics' = RecordLoadConcurrency(FinishRefs(rec[r]))

\* loader(inf.ctx) returns (v, err), whatever the user's loader chooses, and
\* the goroutine runs finishInflight and ends (loader.go:156-158).
FetchReturn(g, v, err) ==
    /\ gor[g].pc = "fetch"
    /\ finishInflight(gor[g].inf, v, err)
    /\ gor' = [gor EXCEPT ![g] = [NoGoroutine EXCEPT !.use = gor[g].use]]
    /\ loc' = [c \in Callers |->
                  IF pc[c] # "idle" /\ loc[c].use = gor[g].use
                  THEN [loc[c] EXCEPT !.fetched = TRUE, !.fv = v, !.ferr = err]
                  ELSE loc[c]]
    /\ UNCHANGED <<others, mu, maxLoadTimeout, ctxExpired, mapHashSeed, shards, allocated, nextId, ctxCancelled, pc,
                   ctxDone, ret, calls, ops>>

\* ------------------------------------------------------ the load timeout
DeadlineExceeded == "context deadline exceeded"

\* WithMaxLoadTimeout: no timeout (0), or the 10ms of the test.
Timeouts == {0, 10}

\* ctx.Err() of load context id: the first of its deadline and its cancel.
ctxErr(id) ==
    IF id \in ctxExpired THEN DeadlineExceeded
    ELSE IF id \in ctxCancelled THEN Canceled
    ELSE Nil

\* A load context made with a timeout has a deadline, and the deadline passes
\* (a deadline that passes after the fetch has ended is seen by no one).
DeadlineExpires(id) ==
    /\ maxLoadTimeout > 0
    /\ id \in 1..(nextId - 1)
    /\ id \notin ctxExpired
    /\ id \notin ctxCancelled
    /\ \E g \in GorIds : gor[g].use = id /\ gor[g].pc # "exit"
    /\ ctxExpired' = ctxExpired \cup {id}
    /\ UNCHANGED <<others, mu, maxLoadTimeout, mapHashSeed, shards, rec, allocated, pool,
                   puts, nextId, ctxCancelled, chClosed, panicked, pc, loc, ctxDone,
                   ret, calls, gor, metrics, ops>>

\* The loader of TestSingleflightLoader_LoadTimesOut:
\* `<-ctx.Done(); return 0, ctx.Err()`.
LoaderUntilDone(g) ==
    /\ gor[g].pc = "fetch"
    /\ ctxErr(gor[g].loadCtx) # Nil
    /\ FetchReturn(g, Zero, ctxErr(gor[g].loadCtx))

\* --------------------------------------------------------------- shard.mu
\* In the steps below a critical section is three steps: Lock, the section
\* itself (the step of load or of the goroutine defined above) and Unlock.
\* Caller c is the process <<"caller", c>>, goroutine g is <<"go", g>>.

\* The key whose loader blocks for ever.
BlockedKey == "k1"

HoldsLock(p) == \E s \in ShardIdx : mu.lock[s].by = p

\* Where process p is.
PcOf(p) == IF p[1] = "caller" THEN pc[p[2]] ELSE gor[p[2]].pc

\* The load calls that are blocked in the Lock of acquireInflight.
Blocked == {c \in Callers : mu.calling[c] # NoKey /\ pc[c] = "idle"}

\* shard.mu.Lock() of shard s by process p at place at (loader.go:91, 117, 135).
Lock(p, s, at) ==
    /\ ~HoldsLock(p)
    /\ mu.lock[s] = NoHolder
    /\ mu' = [mu EXCEPT !.lock[s] = [by |-> p, at |-> at]]
    /\ UNCHANGED <<others, mapHashSeed, shards, rec, allocated, pool, puts, nextId,
                   ctxCancelled, chClosed, panicked, pc, loc, ctxDone, ret, calls,
                   gor, metrics, ops, maxLoadTimeout, ctxExpired>>

\* A faulty variant: the critical section ends without Unlock.
UnlockForgotten(s) == mu.lock

\* shard.mu.Unlock() of shard s (loader.go:92, 129, 147).
Unlock(s) == [mu.lock EXCEPT ![s] = NoHolder]

\* The structs that are in use: made, and not in the pool.
Live == {r \in allocated : pool[r] = 0}

\* A caller calls load(ctx, key, loader) and reaches the Lock of
\* acquireInflight (loader.go:150-151, 89-91).  At most MaxCalls calls are
\* made, and none that could need more than MaxRecs structs.
CallLoad(c, key) ==
    /\ pc[c] = "idle"
    /\ mu.calling[c] = NoKey
    /\ ~HoldsLock(<<"caller", c>>)
    /\ calls + Cardinality(Blocked) < MaxCalls
    /\ Cardinality(Live) + Cardinality(Blocked) < MaxRecs
    /\ mu' = [mu EXCEPT !.calling[c] = key]
    /\ UNCHANGED <<others, mapHashSeed, shards, rec, allocated, pool, puts, nextId,
                   ctxCancelled, chClosed, panicked, pc, loc, ctxDone, ret, calls,
                   gor, metrics, ops, maxLoadTimeout, ctxExpired>>

\* acquireInflight takes the lock of the key's shard (loader.go:90-91).
LockForAcquire(c) ==
    /\ c \in Blocked
    /\ Lock(<<"caller", c>>, shardFor(mu.calling[c]), "idle")

\* releaseInflight takes the lock, on either path of load (loader.go:135).
LockForRelease(c) ==
    /\ (pc[c] = "select" /\ CtxDoneReady(c)) \/ pc[c] = "release"
    /\ Lock(<<"caller", c>>, loc[c].shard, pc[c])

\* The loader of a key other than BlockedKey returns, and finishInflight
\* takes the lock (loader.go:156-157, 117).
LockForFinish(g) ==
    /\ gor[g].pc = "fetch"
    /\ gor[g].key # BlockedKey
    /\ Lock(<<"go", g>>, gor[g].shard, "fetch")

\* The critical section of acquireInflight, and the `go` statement.
LockedLoad(c) ==
    /\ c \in Blocked
    /\ mu.lock[shardFor(mu.calling[c])] = [by |-> <<"caller", c>>, at |-> "idle"]
    /\ Load(c, mu.calling[c])

\* The critical section of releaseInflight on the context path.
LockedSelectCtxDone(c) ==
    /\ mu.lock[loc[c].shard] = [by |-> <<"caller", c>>, at |-> "select"]
    /\ SelectCtxDone(c)

\* The critical section of releaseInflight on the completion path.
LockedReleaseOnDone(c) ==
    /\ mu.lock[loc[c].shard] = [by |-> <<"caller", c>>, at |-> "release"]
    /\ ReleaseOnDone(c)

\* The critical section of finishInflight.
LockedFetchReturn(g, v, err) ==
    /\ mu.lock[gor[g].shard] = [by |-> <<"go", g>>, at |-> "fetch"]
    /\ FetchReturn(g, v, err)

\* The Unlock that ends the critical section process p has run on shard s.
MuUnlock(p, s) ==
    /\ mu.lock[s].by = p
    /\ PcOf(p) # mu.lock[s].at
    /\ mu' = [lock |-> Unlock(s),
              calling |-> IF p[1] = "caller"
                          THEN [mu.calling EXCEPT ![p[2]] = NoKey]
                          ELSE mu.calling]
    /\ UNCHANGED <<others, mapHashSeed, shards, rec, allocated, pool, puts, nextId,
                   ctxCancelled, chClosed, panicked, pc, loc, ctxDone, ret, calls,
                   gor, metrics, ops, maxLoadTimeout, ctxExpired>>

\* The steps load and the goroutine take without the lock.
Unlocked(c) ==
    /\ ~HoldsLock(<<"caller", c>>)
    /\ EnterSelect(c) \/ SelectDoneCh(c)

\* Someone cancels the context of a caller of BlockedKey.
CancelBlocked(c) ==
    /\ loc[c].key = BlockedKey
    /\ CancelCtx(c)

\* ----------------------------------------------------------- directLoader
MaxDirectCalls == 3

\* The context a caller hands to load: every caller has its own.
CallerCtx(c) == c
NoCtx == 0

\* A caller of directLoader.load: where it is, the key and the context of its
\* call, the context its loader was invoked with, what the loader returned
\* and what load returned.
NoDirectCall ==
    [pc |-> "idle", key |-> "k1", ctx |-> NoCtx, loaderCtx |-> NoCtx,
     fv |-> 0, ferr |-> Nil, val |-> 0, leader |-> FALSE, err |-> Nil,
     returned |-> FALSE]

DirectInit == [calls |-> 0, invoked |-> 0, call |-> [c \in Callers |-> NoDirectCall]]

\* A faulty variant: a call finds the loader running for its key and joins it.
DirectInvocationsCoalesced(c, key) ==
    IF \E d \in Callers : direct.call[d].pc = "loader" /\ direct.call[d].key = key
    THEN 0 ELSE 1

\* The loader invocations one call of load makes (loader.go:187).
DirectInvocations(c, key) == 1

\* What directLoader.load returns when its loader returned (v, err)
\* (loader.go:188-194).
DirectResult(v, err) ==
    IF err # Nil
    THEN [val |-> Zero, leader |-> TRUE, err |-> err]
    ELSE [val |-> v, leader |-> TRUE, err |-> Nil]

\* load(ctx, key, loader) up to `loader(ctx)` (loader.go:186-187).
DirectLoad(c, key) ==
    /\ direct.call[c].pc = "idle"
    /\ direct.calls < MaxDirectCalls
    /\ direct' = [direct EXCEPT
                     !.calls = @ + 1,
                     !.invoked = @ + DirectInvocations(c, key),
                     !.call[c] = [NoDirectCall EXCEPT !.pc = "loader", !.key = key,
                                                     !.ctx = CallerCtx(c),
                                                     !.loaderCtx = CallerCtx(c)]]
    /\ UNCHANGED <<mapHashSeed, shards, rec, allocated, pool, puts, nextId,
                   ctxCancelled, chClosed, panicked, pc, loc, ctxDone, ret, calls,
                   gor, metrics, ops, maxLoadTimeout, ctxExpired, mu,
                   codec, redis, noop, policy, facade>>

\* `loader(ctx)` returns (v, err), and load returns (loader.go:187-194).
DirectReturn(c, v, err) ==
    /\ direct.call[c].pc = "loader"
    /\ LET r == DirectResult(v, err)
       IN  direct' = [direct EXCEPT
                        !.call[c] = [@ EXCEPT !.pc = "idle", !.fv = v, !.ferr = err,
                                             !.val = r.val, !.leader = r.leader,
                                             !.err = r.err, !.returned = TRUE]]
    /\ UNCHANGED <<mapHashSeed, shards, rec, allocated, pool, puts, nextId,
                   ctxCancelled, chClosed, panicked, pc, loc, ctxDone, ret, calls,
                   gor, metrics, ops, maxLoadTimeout, ctxExpired, mu,
                   codec, redis, noop, policy, facade>>

\* -------------------------------------------------------------- the codecs
CompressionTypeIDNone == 0
CompressionTypeIDZlib == 1
ErrDecompressZeroLengthData == "invalid data for decompression"
ErrUnsupportedCompressionTypeID == "unsupported compression type ID"

\* errors.Is(err, target): no error of this package wraps another.
errorsIs(err, target) == err = target

\* []byte and string are sequences of bytes; '|', '-', '+', '0', 'h', 'i'.
Bar == 124
Minus == 45
Plus == 43
Digit0 == 48
LetterH == 104
LetterI == 105

\* CacheObject[V]{Value, ExpireAtMillis}, and its zero value.
CacheObject(value, expireAtMillis) == [Value |-> value, ExpireAtMillis |-> expireAtMillis]
ZeroObject == CacheObject(<<>>, 0)

\* strconv.FormatInt(n, 10).
RECURSIVE FormatUint(_)
FormatUint(n) ==
    IF n < 10 THEN <<Digit0 + n>> ELSE FormatUint(n \div 10) \o <<Digit0 + (n % 10)>>

FormatInt(n) == IF n < 0 THEN <<Minus>> \o FormatUint(-n) ELSE FormatUint(n)

\* strconv.ParseInt(s, 10, 64), for numbers that fit.
IsDigit(b) == b >= Digit0 /\ b <= Digit0 + 9

RECURSIVE ParseUint(_, _)
ParseUint(s, acc) ==
    IF s = <<>> THEN acc ELSE ParseUint(Tail(s), acc * 10 + (Head(s) - Digit0))

ParseInt(s) ==
    LET signed == s # <<>> /\ Head(s) \in {Plus, Minus}
        digits == IF signed THEN Tail(s) ELSE s
    IN  IF digits = <<>> \/ \E i \in 1..Len(digits) : ~IsDigit(digits[i])
        THEN [n |-> 0, err |-> "strconv.ParseInt: invalid syntax"]
        ELSE [n |-> IF signed /\ Head(s) = Minus
                    THEN 0 - ParseUint(digits, 0) ELSE ParseUint(digits, 0),
              err |-> Nil]

\* strings.Index(s, "|") + 1: the place of the first '|', 0 when there is none.
IndexBar(s) ==
    IF \E i \in 1..Len(s) : s[i] = Bar
    THEN CHOOSE i \in 1..Len(s) : s[i] = Bar /\ \A j \in 1..(i - 1) : s[j] # Bar
    ELSE 0

\* binaryCompressionTestCodec.Encode: value + "|" + FormatInt(expireAtMillis).
TestCodecEncode(o) ==
    [buf |-> o.Value \o <<Bar>> \o FormatInt(o.ExpireAtMillis), err |-> Nil]

\* binaryCompressionTestCodec.Decode: SplitN(data, "|", 2), then ParseInt.
TestCodecDecode(data) ==
    LET i == IndexBar(data)
        p == ParseInt(SubSeq(data, i + 1, Len(data)))
    IN  IF i = 0 THEN [obj |-> ZeroObject, err |-> "invalid payload"]
        ELSE IF p.err # Nil THEN [obj |-> ZeroObject, err |-> p.err]
        ELSE [obj |-> CacheObject(SubSeq(data, 1, i - 1), p.n), err |-> Nil]

\* emptyPayloadCodec.
EmptyCodecEncode(o) == [buf |-> <<>>, err |-> Nil]

EmptyCodecDecode(data) ==
    IF Len(data) # 0 THEN [obj |-> ZeroObject, err |-> "expected empty payload"]
    ELSE [obj |-> ZeroObject, err |-> Nil]

\* The inner codecs: binaryCompressionTestCodec, alone or embedded in a
\* bufferReleasePolicyCodec{canRelease}, and emptyPayloadCodec.
InnerCodecs ==
    {[kind |-> "test", policy |-> "none"], [kind |-> "test", policy |-> "true"],
     [kind |-> "test", policy |-> "false"], [kind |-> "empty", policy |-> "none"]}

innerEncode(inner, o) ==
    IF inner.kind = "test" THEN TestCodecEncode(o) ELSE EmptyCodecEncode(o)

innerDecode(inner, data) ==
    IF inner.kind = "test" THEN TestCodecDecode(data) ELSE EmptyCodecDecode(data)

\* compress/zlib, as far as the codec depends on it: a stream is a two-byte
\* header, the data in one stored block that carries its length, and a
\* checksum of the data; a reader rejects every other input.
ZlibHeader == <<120, 156>>

RECURSIVE SumBytes(_)
SumBytes(data) == IF data = <<>> THEN 0 ELSE Head(data) + SumBytes(Tail(data))

Checksum(data) == (1 + SumBytes(data)) % 251

\* compressZlib(buf, data): what buf holds afterwards.
compressZlib(data) ==
    [buf |-> ZlibHeader \o <<Len(data)>> \o data \o <<Checksum(data)>>, err |-> Nil]

\* decompressZlib(buf, data): what buf holds afterwards, or the error.
decompressZlib(data) ==
    IF Len(data) < 2 THEN [buf |-> <<>>, err |-> "unexpected EOF"]
    ELSE IF SubSeq(data, 1, 2) # ZlibHeader
    THEN [buf |-> <<>>, err |-> "zlib: invalid header"]
    ELSE IF Len(data) < 3 \/ Len(data) < 4 + data[3]
    THEN [buf |-> <<>>, err |-> "unexpected EOF"]
    ELSE LET out == SubSeq(data, 4, 3 + data[3])
         IN  IF data[4 + data[3]] # Checksum(out)
             THEN [buf |-> out, err |-> "zlib: invalid checksum"]
             ELSE [buf |-> out, err |-> Nil]

\* NewBinaryCompressionCodec(inner, compressThresholdBytes) (codec.go:105-124).
NewBinaryCompressionCodec(inner, compressThresholdBytes) ==
    [inner |-> inner,
     compressThresholdBytes |-> compressThresholdBytes,
     canReleaseBufferOnDecode |-> (inner.policy = "true")]

\* A faulty variant: a payload as long as the threshold is left uncompressed.
EncodeSkipsCompressionAtThreshold(threshold, n) == threshold < 0 \/ n <= threshold

\* `b.compressThresholdBytes < 0 || len(innerBuf) < b.compressThresholdBytes`
\* (codec.go:131).
EncodeSkipsCompression(threshold, n) == threshold < 0 \/ n < threshold

\* A faulty variant: the uncompressed frame is written over its type byte.
FrameNoneUnprefixed(innerBuf) == innerBuf

\* The frame of an uncompressed payload (codec.go:132-134).
FrameNone(innerBuf) == <<CompressionTypeIDNone>> \o innerBuf

\* The frame of a compressed payload (codec.go:147-149).
FrameZlib(compressed) == <<CompressionTypeIDZlib>> \o compressed

\* binaryCompressionCodec.Encode(value): the frame, the error, and the
\* buffers it took from and gave back to bufPool (codec.go:126-152).
Encode(b, value) ==
    LET in == innerEncode(b.inner, value)
        z == compressZlib(in.buf)
    IN  IF in.err # Nil
        THEN [buf |-> <<>>, err |-> in.err, acquired |-> 0, returned |-> 0]
        ELSE IF EncodeSkipsCompression(b.compressThresholdBytes, Len(in.buf))
        THEN [buf |-> FrameNone(in.buf), err |-> Nil, acquired |-> 0, returned |-> 0]
        ELSE IF z.err # Nil
        THEN [buf |-> <<>>, err |-> z.err, acquired |-> 1, returned |-> 1]
        ELSE [buf |-> FrameZlib(z.buf), err |-> Nil, acquired |-> 1, returned |-> 1]

\* A faulty variant: empty input is reported with the other sentinel.
DecodeEmptyErrWrongSentinel == ErrUnsupportedCompressionTypeID

\* The error Decode returns for empty input (codec.go:156).
DecodeEmptyErr == ErrDecompressZeroLengthData

\* fmt.Errorf("unsupported compression type: %d", compressionTypeID)
\* (codec.go:177).
DecodeUnsupportedErr(compressionTypeID) ==
    "unsupported compression type: " \o ToString(compressionTypeID)

\* A faulty variant: the zlib branch of Decode never gives its buffer back.
DecodeReturnedNever(b) == 0

\* The buffers the zlib branch of Decode gives back: the deferred
\* returnBuffer is registered only `if b.canReleaseBufferOnDecode`
\* (codec.go:165-168).
DecodeReturned(b) == IF b.canReleaseBufferOnDecode THEN 1 ELSE 0

\* binaryCompressionCodec.Decode(data): the object, the error, the calls of
\* the inner decoder, and the buffers taken and given back (codec.go:154-179).
Decode(b, data) ==
    IF Len(data) = 0
    THEN [obj |-> ZeroObject, err |-> DecodeEmptyErr, innerDecodes |-> 0,
          acquired |-> 0, returned |-> 0]
    ELSE LET compressionTypeID == data[1]
             compressedData == Tail(data)
             plain == innerDecode(b.inner, compressedData)
             z == decompressZlib(compressedData)
             inflated == innerDecode(b.inner, z.buf)
         IN  CASE compressionTypeID = CompressionTypeIDNone ->
                    [obj |-> plain.obj, err |-> plain.err, innerDecodes |-> 1,
                     acquired |-> 0, returned |-> 0]
               [] compressionTypeID = CompressionTypeIDZlib ->
                    IF z.err # Nil
                    THEN [obj |-> ZeroObject, err |-> z.err, innerDecodes |-> 0,
                          acquired |-> 1, returned |-> DecodeReturned(b)]
                    ELSE [obj |-> inflated.obj, err |-> inflated.err, innerDecodes |-> 1,
                          acquired |-> 1, returned |-> DecodeReturned(b)]
               [] OTHER ->
                    [obj |-> ZeroObject, err |-> DecodeUnsupportedErr(compressionTypeID),
                     innerDecodes |-> 0, acquired |-> 0, returned |-> 0]

\* The thresholds a codec is made with: none, always, and two sizes.
Thresholds == {-1, 0, 1, 4}

\* The cache objects handed to a codec over inner: strings with and without
\* a '|' and expiry times of one and more digits and a sign; struct{} values.
StringValues == {<<>>, <<LetterH>>, <<LetterH, LetterI>>, <<LetterH, Bar>>}
ExpireValues == {0, 7, 1234, -3}

CacheObjects(inner) ==
    IF inner.kind = "test"
    THEN {CacheObject(v, e) : v \in StringValues, e \in ExpireValues}
    ELSE {CacheObject(<<>>, e) : e \in ExpireValues}

\* The data handed to Decode that no Encode made: nil, frames of both types
\* with good and bad payloads, and frames of other types.
RawFrames ==
    {<<>>, <<0>>, <<0, LetterH, Bar, Digit0>>, <<0, LetterH>>, <<1>>, <<1, 0, 1>>,
     <<1, 120, 156, 0, 1>>, <<1, 120, 156, 1, LetterH, 0>>, <<2>>, <<255, 0>>}

\* A codec and its last call: the buffers idle in bufPool, the method called,
\* its argument and what it returned and did.
CodecInit(b) ==
    [b |-> b, bufPool |-> 0, op |-> "none", value |-> ZeroObject, data |-> <<>>,
     buf |-> <<>>, obj |-> ZeroObject, err |-> Nil, innerDecodes |-> 0,
     acquired |-> 0, returned |-> 0]

\* bufPool after a call: Get takes an idle buffer or makes one, Put adds one.
BufPoolAfter(n, r) == Max(n - r.acquired, 0) + r.returned

loaderVars ==
    <<mapHashSeed, shards, rec, allocated, pool, puts, nextId, ctxCancelled, chClosed,
      panicked, pc, loc, ctxDone, ret, calls, gor, metrics, ops, maxLoadTimeout,
      ctxExpired, mu>>

\* encoded, err := codec.Encode(value).
CodecEncode(value) ==
    /\ value \in CacheObjects(codec.b.inner)
    /\ LET r == Encode(codec.b, value)
       IN  codec' = [CodecInit(codec.b) EXCEPT
                        !.bufPool = BufPoolAfter(codec.bufPool, r),
                        !.op = "Encode", !.value = value, !.buf = r.buf, !.err = r.err,
                        !.acquired = r.acquired, !.returned = r.returned]
    /\ UNCHANGED <<loaderVars, direct, redis, noop, policy, facade>>

\* The decode of a call: codec.Decode(data), named op.
CodecDecodeAs(op, value, data) ==
    LET r == Decode(codec.b, data)
    IN  codec' = [CodecInit(codec.b) EXCEPT
                     !.bufPool = BufPoolAfter(codec.bufPool, r),
                     !.op = op, !.value = value, !.data = data, !.obj = r.obj,
                     !.err = r.err, !.innerDecodes = r.innerDecodes,
                     !.acquired = r.acquired, !.returned = r.returned]

\* decoded, err := codec.Decode(encoded), after an Encode that succeeded.
CodecDecodeEncoded ==
    /\ codec.op = "Encode" /\ codec.err = Nil
    /\ CodecDecodeAs("RoundTrip", codec.value, codec.buf)
    /\ UNCHANGED <<loaderVars, direct, redis, noop, policy, facade>>

\* _, err := codec.Decode(data).
CodecDecode(data) ==
    /\ CodecDecodeAs("Decode", ZeroObject, data)
    /\ UNCHANGED <<loaderVars, direct, redis, noop, policy, facade>>

\* ----------------------------------------------------- RedisCacheProvider
MaxForwards == 3

\* Durations and the server's clock count milliseconds.
RedisKeys == {"key", "other"}
RedisValues == {<<LetterH>>, <<LetterH, LetterI>>}
Ttls == {0, 50}
ForwardMs == 25
NilBytes == <<>>
NoExpiry == 0

\* rueidis.Nil, the error of a null reply.
RedisNil == "redis nil message"

\* What the server holds for a key.
NoEntry == [kind |-> "none", value |-> NilBytes, expireAt |-> NoExpiry]

\* The entry is there at time now: it has no expiry or now is before it.
EntryLive(entry, now) ==
    entry.kind # "none" /\ (entry.expireAt = NoExpiry \/ now < entry.expireAt)

\* The server's reply to GET key, as (message, error) of result.ToMessage().
RedisGet(db, now, key) ==
    IF ~EntryLive(db[key], now)
    THEN [msg |-> [typ |-> "null", val |-> NilBytes], err |-> RedisNil]
    ELSE IF db[key].kind # "string"
    THEN [msg |-> [typ |-> "error", val |-> NilBytes], err |-> "WRONGTYPE"]
    ELSE [msg |-> [typ |-> "string", val |-> db[key].value], err |-> Nil]

\* The server's handling of SET key value [PX px]; px = NoExpiry: no PX.
RedisSet(db, now, key, value, px) ==
    [db |-> [db EXCEPT ![key] =
                [kind |-> "string", value |-> value,
                 expireAt |-> IF px = NoExpiry THEN NoExpiry ELSE now + px]],
     err |-> Nil]

\* The server's handling of DEL key.
RedisDel(db, now, key) == [db |-> [db EXCEPT ![key] = NoEntry], err |-> Nil]

\* msg.IsNil() and msg.AsBytes().
MsgIsNil(msg) == msg.typ = "null"

MsgAsBytes(msg) ==
    IF msg.typ = "string" THEN [val |-> msg.val, err |-> Nil]
    ELSE [val |-> NilBytes, err |-> "redis message type is not a string"]

\* A faulty variant: the error is looked at before the message.
parseRedisGetMessageErrorFirst(msg, err) ==
    IF err # Nil
    THEN IF errorsIs(err, RedisNil)
         THEN [val |-> NilBytes, ok |-> FALSE, err |-> Nil]
         ELSE [val |-> NilBytes, ok |-> FALSE, err |-> err]
    ELSE IF MsgIsNil(msg) THEN [val |-> NilBytes, ok |-> FALSE, err |-> Nil]
    ELSE IF MsgAsBytes(msg).err # Nil
    THEN [val |-> NilBytes, ok |-> FALSE, err |-> MsgAsBytes(msg).err]
    ELSE [val |-> MsgAsBytes(msg).val, ok |-> TRUE, err |-> Nil]

\* parseRedisGetMessage(msg, err) (cache_provider_test.go:151-168).
parseRedisGetMessage(msg, err) ==
    IF MsgIsNil(msg) THEN [val |-> NilBytes, ok |-> FALSE, err |-> Nil]
    ELSE IF err # Nil
    THEN IF errorsIs(err, RedisNil)
         THEN [val |-> NilBytes, ok |-> FALSE, err |-> Nil]
         ELSE [val |-> NilBytes, ok |-> FALSE, err |-> err]
    ELSE IF MsgAsBytes(msg).err # Nil
    THEN [val |-> NilBytes, ok |-> FALSE, err |-> MsgAsBytes(msg).err]
    ELSE [val |-> MsgAsBytes(msg).val, ok |-> TRUE, err |-> Nil]

\* A faulty variant: Set never sends PX.
SetUsesPxNever(ttl) == FALSE

\* `if ttl > 0` (cache_provider_test.go:139).
SetUsesPx(ttl) == ttl > 0

\* The last Set or Delete call made for a key, and when.
NoWrite == [op |-> "none", value |-> NilBytes, ttl |-> 0, at |-> 0]

NoCall == [op |-> "none", key |-> "key", val |-> NilBytes, ok |-> FALSE, err |-> Nil]

RedisInit ==
    [now |-> 0, forwards |-> 0, db |-> [k \in RedisKeys |-> NoEntry],
     last |-> NoCall, written |-> [k \in RedisKeys |-> NoWrite]]

\* provider.Get(ctx, key) (cache_provider_test.go:129-134).
ProviderGet(key) ==
    /\ LET r == RedisGet(redis.db, redis.now, key)
           g == parseRedisGetMessage(r.msg, r.err)
       IN  redis' = [redis EXCEPT
                        !.last = [op |-> "Get", key |-> key, val |-> g.val,
                                  ok |-> g.ok, err |-> g.err]]
    /\ UNCHANGED <<loaderVars, direct, codec, noop, policy, facade>>

\* provider.Set(ctx, key, value, ttl) (cache_provider_test.go:137-144).
ProviderSet(key, value, ttl) ==
    /\ LET r == RedisSet(redis.db, redis.now, key, value,
                         IF SetUsesPx(ttl) THEN ttl ELSE NoExpiry)
       IN  redis' = [redis EXCEPT
                        !.db = r.db,
                        !.last = [NoCall EXCEPT !.op = "Set", !.key = key, !.err = r.err],
                        !.written[key] = [op |-> "Set", value |-> value, ttl |-> ttl,
                                          at |-> redis.now]]
    /\ UNCHANGED <<loaderVars, direct, codec, noop, policy, facade>>

\* provider.Delete(ctx, key) (cache_provider_test.go:147-149).
ProviderDelete(key) ==
    /\ LET r == RedisDel(redis.db, redis.now, key)
       IN  redis' = [redis EXCEPT
                        !.db = r.db,
                        !.last = [NoCall EXCEPT !.op = "Delete", !.key = key, !.err = r.err],
                        !.written[key] = [NoWrite EXCEPT !.op = "Delete", !.at = redis.now]]
    /\ UNCHANGED <<loaderVars, direct, codec, noop, policy, facade>>

\* Time passes at the server: server.FastForward(d).
FastForward ==
    /\ redis.forwards < MaxForwards
    /\ redis' = [redis EXCEPT !.now = @ + ForwardMs, !.forwards = @ + 1,
                              !.last = NoCall]
    /\ UNCHANGED <<loaderVars, direct, codec, noop, policy, facade>>

\* ------------------------------------------- parseRedisGetMessage, alone
\* The longest string a message holds.
MaxMsgLen == 3

\* The strings over 'h' and 'i' of length n or less.
RECURSIVE ByteStrings(_)
ByteStrings(n) ==
    IF n = 0 THEN {<<>>}
    ELSE ByteStrings(n - 1) \cup
         {Append(b, x) : b \in {y \in ByteStrings(n - 1) : Len(y) = n - 1},
                         x \in {LetterH, LetterI}}

\* rueidis.RedisMessage{}, as TestParseRedisGetMessage_Error passes it.
ZeroMessage == [typ |-> "zero", val |-> NilBytes, intlen |-> 0]

\* newRedisNullMessage() and newRedisIntMessage(value) of the tests
\* (part_003:87-103), a string reply, and an error reply.
newRedisNullMessage == [typ |-> "null", val |-> NilBytes, intlen |-> 0]
newRedisIntMessage(value) == [typ |-> "integer", val |-> NilBytes, intlen |-> value]
StringMessage(b) == [typ |-> "string", val |-> b, intlen |-> 0]
ErrorMessage == [typ |-> "error", val |-> NilBytes, intlen |-> 0]

ParseMessages ==
    {ZeroMessage, newRedisNullMessage, ErrorMessage}
        \cup {newRedisIntMessage(i) : i \in 0..2}
        \cup {StringMessage(b) : b \in ByteStrings(MaxMsgLen)}

\* The errors ToMessage() hands over: none, rueidis.Nil, and others.
ParseErrs == {Nil, RedisNil, "boom", "WRONGTYPE", "i/o timeout"}

\* What (msg, err) of result.ToMessage() can be: a message of no type comes
\* with an error only.
ParseInputs ==
    {in \in [msg : ParseMessages, err : ParseErrs] :
        in.msg.typ = "zero" => in.err # Nil}

\* No call of parseRedisGetMessage made yet.
ParseInit ==
    [called |-> FALSE, msg |-> ZeroMessage, err |-> Nil,
     out |-> [val |-> NilBytes, ok |-> FALSE, err |-> Nil]]

\* value, ok, err := parseRedisGetMessage(msg, err) (part_003:25-85).
ParseCall(msg, err) ==
    /\ redis' = [called |-> TRUE, msg |-> msg, err |-> err,
                 out |-> parseRedisGetMessage(msg, err)]
    /\ UNCHANGED <<loaderVars, direct, codec, noop, policy, facade>>

\* ------------------------------------------------------ NoopCacheProvider
\* `var zero S`, for S = string or []byte.
ZeroS == <<>>

\* A faulty variant: Get reports a hit.
NoopGetFound(key) == [val |-> ZeroS, ok |-> TRUE, err |-> Nil]

\* NoopCacheProvider.Get (part_001:517-521).
NoopGet(key) == [val |-> ZeroS, ok |-> FALSE, err |-> Nil]

\* NoopCacheProvider.Set (part_001:524-526).
NoopSet(key, value, ttl) == Nil

\* NoopCacheProvider.Delete (part_001:529-531).
NoopDelete(key) == Nil

\* The provider's last call, and the last Set or Delete made for every key.
NoopInit == [last |-> NoCall, written |-> [k \in RedisKeys |-> NoWrite]]

\* provider.Get(ctx, key).
NoopProviderGet(key) ==
    /\ LET g == NoopGet(key)
       IN  noop' = [noop EXCEPT !.last = [op |-> "Get", key |-> key, val |-> g.val,
                                         ok |-> g.ok, err |-> g.err]]
    /\ UNCHANGED <<loaderVars, direct, codec, redis, policy, facade>>

\* provider.Set(ctx, key, value, ttl).
NoopProviderSet(key, value, ttl) ==
    /\ noop' = [noop EXCEPT
                   !.last = [NoCall EXCEPT !.op = "Set", !.key = key,
                                           !.err = NoopSet(key, value, ttl)],
                   !.written[key] = [op |-> "Set", value |-> value, ttl |-> ttl, at |-> 0]]
    /\ UNCHANGED <<loaderVars, direct, codec, redis, policy, facade>>

\* provider.Delete(ctx, key).
NoopProviderDelete(key) ==
    /\ noop' = [noop EXCEPT
                   !.last = [NoCall EXCEPT !.op = "Delete", !.key = key,
                                           !.err = NoopDelete(key)],
                   !.written[key] = [NoWrite EXCEPT !.op = "Delete"]]
    /\ UNCHANGED <<loaderVars, direct, codec, redis, policy, facade>>

\* ---------------------------------------------------- revalidation policy
RECURSIVE Pow(_, _)
Pow(x, n) == IF n = 0 THEN 1 ELSE x * Pow(x, n - 1)

\* A number as a quotient of two naturals.
Ratio(num, den) == [num |-> num, den |-> den]

\* The inputs of a decision: expiry times and the time now in ms, windows in
\* ms, shapes beta and draws u in [0, 1).
PolicyNow == 1000
ExpireAts == {990, 1000, 1025, 1050, 1075, 1100, 1150}
Windows == {0, 100}
Betas == {Ratio(1, 2), Ratio(1, 1), Ratio(2, 1)}
Draws == {Ratio(0, 4), Ratio(1, 4), Ratio(2, 4), Ratio(3, 4)}

\* A faulty variant: the draw must exceed p for a refresh.
DrawBelowProbabilityReversed(u, W, remainingMs, beta) ==
    Pow(u.num, beta.den) * Pow(W, beta.num) >
        Pow(W - remainingMs, beta.num) * Pow(u.den, beta.den)

\* u < ((W - remainingMs) / W)^beta, for 0 < remainingMs < W: both sides
\* raised to beta's denominator and cleared of their quotients.
DrawBelowProbability(u, W, remainingMs, beta) ==
    Pow(u.num, beta.den) * Pow(W, beta.num) <
        Pow(W - remainingMs, beta.num) * Pow(u.den, beta.den)

\* What the cache does with a hit that expires at X.
Revalidate(enabled, X, now, W, beta, u) ==
    LET remainingMs == X - now
    IN  IF remainingMs <= 0 THEN "miss"
        ELSE IF ~enabled THEN "serve"
        ELSE IF remainingMs >= W THEN "serve"
        ELSE IF DrawBelowProbability(u, W, remainingMs, beta) THEN "refresh"
        ELSE "serve"

PolicyInit ==
    [enabled |-> FALSE, X |-> 0, now |-> 0, W |-> 0, beta |-> Ratio(1, 1),
     u |-> Ratio(0, 4), decision |-> "none"]

\* One decision of the policy.
PolicyDecide(enabled, X, W, beta, u) ==
    /\ policy' = [enabled |-> enabled, X |-> X, now |-> PolicyNow, W |-> W,
                  beta |-> beta, u |-> u,
                  decision |-> Revalidate(enabled, X, PolicyNow, W, beta, u)]
    /\ UNCHANGED <<loaderVars, direct, codec, redis, noop, facade>>

\* ------------------------------------------------------ the cache facade
MaxFacadeCalls == 2

\* The value a hit holds, and the errors of a provider and of a codec.
CachedVal == 5
ProviderErr == "provider failed"
CodecErr == "codec failed"

\* A GetOrLoad call: where it is, the metrics it has emitted, the calls of
\* the user's loader it has made, what the loader returned, and its result.
FacadeInit ==
    [pc |-> "idle", calls |-> 0, emitted |-> <<>>, loaderCalls |-> 0,
     loaded |-> Zero, storeErr |-> Nil, returned |-> FALSE, val |-> Zero, err |-> Nil]

Emit(metric) == Append(facade.emitted, metric)

\* A faulty variant: a failure to store the loaded value fails the call.
StoreFailureSurfaced(v, err) == [val |-> Zero, err |-> err]

\* What the wrapped loader returns when the encode or the set after a load
\* failed: the loaded value, the error swallowed.
StoreFailureResult(v, err) == [val |-> v, err |-> Nil]

\* GetOrLoad(ctx, key, ttl, userLoader) is called.
GetOrLoad ==
    /\ facade.pc = "idle"
    /\ facade.calls < MaxFacadeCalls
    /\ facade' = [FacadeInit EXCEPT !.pc = "get", !.calls = facade.calls + 1]
    /\ UNCHANGED <<loaderVars, direct, codec, redis, noop, policy>>

\* Step 1: provider.get(key); an error is recorded and the call goes on to load.
FacadeGet(outcome) ==
    /\ facade.pc = "get"
    /\ facade' =
          CASE outcome = "hit" -> [facade EXCEPT !.pc = "decode"]
            [] outcome = "miss" ->
                  [facade EXCEPT !.pc = "load", !.emitted = Emit("RecordMiss")]
            [] outcome = "error" ->
                  [facade EXCEPT !.pc = "load",
                                 !.emitted = Emit("RecordProviderError") \o <<"RecordMiss">>]
    /\ UNCHANGED <<loaderVars, direct, codec, redis, noop, policy>>

\* Step 2: codec.decode of the hit; an error is recorded and taken for a miss.
FacadeDecode(ok) ==
    /\ facade.pc = "decode"
    /\ facade' = IF ok THEN [facade EXCEPT !.pc = "policy"]
                 ELSE [facade EXCEPT !.pc = "load",
                                     !.emitted = Emit("RecordCodecError") \o <<"RecordMiss">>]
    /\ UNCHANGED <<loaderVars, direct, codec, redis, noop, policy>>

\* Step 3: the revalidation policy; a served hit is returned.
FacadePolicy(decision) ==
    /\ facade.pc = "policy"
    /\ facade' = IF decision = "serve"
                 THEN [facade EXCEPT !.pc = "idle", !.emitted = Emit("RecordHit"),
                                     !.returned = TRUE, !.val = CachedVal, !.err = Nil]
                 ELSE [facade EXCEPT !.pc = "load", !.emitted = Emit("RecordMiss")]
    /\ UNCHANGED <<loaderVars, direct, codec, redis, noop, policy>>

\* Step 4: the wrapped loader runs userLoader; its error is the call's error.
FacadeLoad(v, err) ==
    /\ facade.pc = "load"
    /\ facade' = IF err # Nil
                 THEN [facade EXCEPT !.pc = "idle", !.loaderCalls = @ + 1,
                                     !.returned = TRUE, !.val = Zero, !.err = err]
                 ELSE [facade EXCEPT !.pc = "encode", !.loaderCalls = @ + 1,
                                     !.loaded = v]
    /\ UNCHANGED <<loaderVars, direct, codec, redis, noop, policy>>

\* Step 4: codec.encode of the stamped object; an error is recorded and
\* swallowed.
FacadeEncode(ok) ==
    /\ facade.pc = "encode"
    /\ facade' = IF ok THEN [facade EXCEPT !.pc = "set"]
                 ELSE LET r == StoreFailureResult(facade.loaded, CodecErr)
                      IN  [facade EXCEPT !.pc = "idle",
                                         !.emitted = Emit("RecordCodecError"),
                                         !.storeErr = CodecErr,
                                         !.returned = TRUE, !.val = r.val, !.err = r.err]
    /\ UNCHANGED <<loaderVars, direct, codec, redis, noop, policy>>

\* Step 4: provider.set; an error is recorded and swallowed.
FacadeSet(ok) ==
    /\ facade.pc = "set"
    /\ facade' = IF ok
                 THEN [facade EXCEPT !.pc = "idle", !.returned = TRUE,
                                     !.val = facade.loaded, !.err = Nil]
                 ELSE LET r == StoreFailureResult(facade.loaded, ProviderErr)
                      IN  [facade EXCEPT !.pc = "idle",
                                         !.emitted = Emit("RecordProviderError"),
                                         !.storeErr = ProviderErr,
                                         !.returned = TRUE, !.val = r.val, !.err = r.err]
    /\ UNCHANGED <<loaderVars, direct, codec, redis, noop, policy>>

\* ------------------------------------------- the harness of the unit tests
\* TestSingleflightLoader_AcquireAfterDoneReplacesInflight and
\* TestSingleflightLoader_PoolPutOnlyAfterDone call newInflight,
\* acquireInflight, finishInflight and releaseInflight themselves, one after
\* the other, on records they install in the shard map by hand.
MaxUnitOps == 6

\* inf := newInflight(ctx); shard.inflight[key] = inf.
UnitInstall(key) ==
    /\ ops < MaxUnitOps
    /\ nextId \in Ids
    /\ \E r \in PoolGetChoices :
          /\ pool' = [pool EXCEPT ![r] = IF @ > 0 THEN @ - 1 ELSE 0]
          /\ puts' = [puts EXCEPT ![r] = 0]
          /\ allocated' = allocated \cup {r}
          /\ rec' = [rec EXCEPT ![r] = newInflight(nextId)]
          /\ shards' = [shards EXCEPT ![shardFor(key)][key] = r]
    /\ nextId' = nextId + 1
    /\ ops' = ops + 1
    /\ UNCHANGED <<others, mu, maxLoadTimeout, ctxExpired, mapHashSeed, ctxCancelled, chClosed, panicked, pc, loc, ctxDone,
                   ret, calls, gor, metrics>>

\* newInf, leader, _ := acquireInflight(ctx, key).
UnitAcquire(key) ==
    /\ ops < MaxUnitOps
    /\ \E r \in AcquireChoices(key) : acquireInflight(key, r)
    /\ ops' = ops + 1
    /\ UNCHANGED <<others, mu, maxLoadTimeout, ctxExpired, mapHashSeed, ctxCancelled, chClosed, panicked, pc, loc, ctxDone,
                   ret, calls, gor, metrics>>

\* finishInflight(inf, shard, v, nil), once for a record.
UnitFinish(r, v, err) ==
    /\ ops < MaxUnitOps
    /\ r \in allocated
    /\ rec[r].doneCh # NoId /\ rec[r].doneCh \notin chClosed
    /\ finishInflight(r, v, err)
    /\ ops' = ops + 1
    /\ UNCHANGED <<others, mu, maxLoadTimeout, ctxExpired, mapHashSeed, shards, allocated, nextId, ctxCancelled, pc, loc,
                   ctxDone, ret, calls, gor>>

\* releaseInflight(key, inf, shard), also a further one after the last.
UnitRelease(key, r) ==
    /\ ops < MaxUnitOps
    /\ r \in allocated
    /\ releaseInflight(key, r, shardFor(key))
    /\ ops' = ops + 1
    /\ UNCHANGED <<others, mu, maxLoadTimeout, ctxExpired, mapHashSeed, allocated, nextId, chClosed, panicked, pc, loc,
                   ctxDone, ret, calls, gor, metrics>>

\* ------------------------------------------------------- specifications
\* The other components before their first call.
OthersInit ==
    /\ direct = DirectInit
    /\ codec = CodecInit(NewBinaryCompressionCodec([kind |-> "test", policy |-> "none"], 0))
    /\ redis = RedisInit
    /\ noop = NoopInit
    /\ policy = PolicyInit
    /\ facade = FacadeInit

\* What a variable holds that no step of a specification reads or writes.
NotTracked == <<>>

\* The specifications of the loader leave the other components out.
OthersNotTracked ==
    /\ direct = NotTracked
    /\ codec = NotTracked
    /\ redis = NotTracked
    /\ noop = NotTracked
    /\ policy = NotTracked
    /\ facade = NotTracked

\* newSingleflightLoader(metrics): a loader without a load timeout.  Every
\* critical section is one step, so the mutexes are left out.
Init == LoaderInit /\ maxLoadTimeout = 0 /\ mu = NotTracked /\ OthersNotTracked

\* The other components before their first call, next to a loader at rest.
InitOthers == LoaderInit /\ maxLoadTimeout = 0 /\ mu = NotTracked /\ OthersInit

CallerStep(c) ==
    \/ EnterSelect(c)
    \/ SelectCtxDone(c)
    \/ SelectDoneCh(c)
    \/ ReleaseOnDone(c)

Next ==
    \/ \E c \in Callers, key \in Keys : Load(c, key)
    \/ \E c \in Callers : EnterSelect(c)
    \/ \E c \in Callers : SelectCtxDone(c)
    \/ \E c \in Callers : SelectDoneCh(c)
    \/ \E c \in Callers : ReleaseOnDone(c)
    \/ \E c \in Callers : CancelCtx(c)
    \/ \E g \in GorIds : GoStart(g)
    \/ \E g \in GorIds, v \in Vals, err \in {Nil} \cup LoaderErrs : FetchReturn(g, v, err)

\* Callers and goroutines of the loader, in any interleaving.
Spec == Init /\ [][Next]_vars

NextLive ==
    \/ \E c \in Callers, key \in Keys : LoadCall(c, key, MaxLiveCalls)
    \/ \E c \in Callers : EnterSelect(c)
    \/ \E c \in Callers : SelectCtxDone(c)
    \/ \E c \in Callers : SelectDoneCh(c)
    \/ \E c \in Callers : ReleaseOnDone(c)
    \/ \E c \in Callers : CancelCtx(c)
    \/ \E g \in GorIds : GoStart(g)
    \/ \E g \in GorIds, v \in Vals, err \in {Nil} \cup LoaderErrs : FetchReturn(g, v, err)

\* The same with fewer calls, and with every caller that can take a step of
\* load taking one in the end: the Go scheduler runs a runnable goroutine, and
\* shard.mu is held for a bounded time only.  Nothing makes the user's loader
\* return, and nothing makes a context become done.
FairSpec == Init /\ [][NextLive]_vars /\ \A c \in Callers : WF_vars(CallerStep(c))

NextUnit ==
    \/ \E key \in Keys : UnitInstall(key)
    \/ \E key \in Keys : UnitAcquire(key)
    \/ \E r \in Recs, v \in Vals, err \in {Nil} \cup LoaderErrs : UnitFinish(r, v, err)
    \/ \E key \in Keys, r \in Recs : UnitRelease(key, r)

\* The unit harness: direct calls, one after the other.
SpecUnit == Init /\ [][NextUnit]_vars

\* newSingleflightLoader(metrics, maxLoadTimeout).
InitTimeout ==
    LoaderInit /\ maxLoadTimeout \in Timeouts /\ mu = NotTracked /\ OthersNotTracked

GoroutineStep(g) == GoStart(g) \/ LoaderUntilDone(g)

NextTimeout ==
    \/ \E c \in Callers, key \in Keys : LoadCall(c, key, MaxLiveCalls)
    \/ \E c \in Callers : EnterSelect(c)
    \/ \E c \in Callers : SelectCtxDone(c)
    \/ \E c \in Callers : SelectDoneCh(c)
    \/ \E c \in Callers : ReleaseOnDone(c)
    \/ \E c \in Callers : CancelCtx(c)
    \/ \E g \in GorIds : GoStart(g)
    \/ \E g \in GorIds : LoaderUntilDone(g)
    \/ \E id \in Ids : DeadlineExpires(id)

\* The steps the runtime takes by itself: those of a caller inside load, of a
\* goroutine, and of the timer of a deadline.
RuntimeStep ==
    \/ \E c \in Callers : CallerStep(c)
    \/ \E g \in GorIds : GoroutineStep(g)
    \/ \E id \in Ids : DeadlineExpires(id)

\* A loader with or without a load timeout, whose fetches block until their
\* context is done.  While the runtime has a step to take it takes one in the
\* end; nothing makes a caller call load or a caller's context become done.
SpecTimeout == InitTimeout /\ [][NextTimeout]_vars /\ WF_vars(RuntimeStep)

NextCooperative ==
    \/ \E c \in Callers, key \in Keys : LoadCall(c, key, MaxLiveCalls)
    \/ \E c \in Callers : EnterSelect(c)
    \/ \E c \in Callers : SelectCtxDone(c)
    \/ \E c \in Callers : SelectDoneCh(c)
    \/ \E c \in Callers : ReleaseOnDone(c)
    \/ \E c \in Callers : CancelCtx(c)
    \/ \E g \in GorIds : GoStart(g)
    \/ \E g \in GorIds, v \in Vals, err \in {Nil} \cup LoaderErrs : FetchReturn(g, v, err)
    \/ \E g \in GorIds : LoaderUntilDone(g)

\* A loader without a load timeout whose fetches return when they choose to,
\* or when they find their context done.  While the runtime has a step to
\* take it takes one in the end; nothing makes a fetch return by itself as
\* long as its context is not done.
SpecCooperative == Init /\ [][NextCooperative]_vars /\ WF_vars(RuntimeStep)

\* The keys collide: one shard, one mutex.
InitLock ==
    /\ LoaderInit /\ mapHashSeed = 0 /\ maxLoadTimeout = 0
    /\ mu = MuInit
    /\ OthersNotTracked

NextLock ==
    \/ \E c \in Callers, key \in Keys : CallLoad(c, key)
    \/ \E c \in Callers : LockForAcquire(c)
    \/ \E c \in Callers : LockedLoad(c)
    \/ \E c \in Callers : Unlocked(c)
    \/ \E c \in Callers : LockForRelease(c)
    \/ \E c \in Callers : LockedSelectCtxDone(c)
    \/ \E c \in Callers : LockedReleaseOnDone(c)
    \/ \E c \in Callers : CancelBlocked(c)
    \/ \E c \in Callers, s \in ShardIdx : MuUnlock(<<"caller", c>>, s)
    \/ \E g \in GorIds : GoStart(g)
    \/ \E g \in GorIds : LockForFinish(g)
    \/ \E g \in GorIds, v \in Vals, err \in {Nil} \cup LoaderErrs : LockedFetchReturn(g, v, err)
    \/ \E g \in GorIds, s \in ShardIdx : MuUnlock(<<"go", g>>, s)

\* What happens by itself: every step but a call of load and a cancel.
LockRuntimeStep ==
    \/ \E c \in Callers :
          \/ LockForAcquire(c) \/ LockedLoad(c) \/ Unlocked(c) \/ LockForRelease(c)
          \/ LockedSelectCtxDone(c) \/ LockedReleaseOnDone(c)
          \/ \E s \in ShardIdx : MuUnlock(<<"caller", c>>, s)
    \/ \E g \in GorIds :
          \/ GoStart(g) \/ LockForFinish(g)
          \/ \E v \in Vals, err \in {Nil} \cup LoaderErrs : LockedFetchReturn(g, v, err)
          \/ \E s \in ShardIdx : MuUnlock(<<"go", g>>, s)

\* The loader with its mutexes: two keys on one shard, the loader of
\* BlockedKey never returns, every other loader returns in the end, and a
\* process that can take a step takes one in the end.
SpecLock == InitLock /\ [][NextLock]_vars /\ WF_vars(LockRuntimeStep)

NextDirect ==
    \/ \E c \in Callers, key \in Keys : DirectLoad(c, key)
    \/ \E c \in Callers, v \in {Zero} \cup Vals, err \in {Nil} \cup LoaderErrs :
          DirectReturn(c, v, err)

\* Callers of directLoader.load, in any interleaving.
SpecDirect == InitOthers /\ [][NextDirect]_vars

\* A codec over any of the inner codecs, with any of the thresholds.
InitCodec ==
    /\ LoaderInit /\ maxLoadTimeout = 0 /\ mu = NotTracked
    /\ direct = DirectInit
    /\ \E inner \in InnerCodecs, t \in Thresholds :
          codec = CodecInit(NewBinaryCompressionCodec(inner, t))
    /\ redis = RedisInit
    /\ noop = NoopInit
    /\ policy = PolicyInit
    /\ facade = FacadeInit

NextCodec ==
    \/ \E value \in CacheObjects(codec.b.inner) : CodecEncode(value)
    \/ CodecDecodeEncoded
    \/ \E data \in RawFrames : CodecDecode(data)

\* Calls of Encode and Decode on one codec, one after the other.
SpecCodec == InitCodec /\ [][NextCodec]_vars

NextRedis ==
    \/ \E key \in RedisKeys : ProviderGet(key)
    \/ \E key \in RedisKeys, value \in RedisValues, ttl \in Ttls : ProviderSet(key, value, ttl)
    \/ \E key \in RedisKeys : ProviderDelete(key)
    \/ FastForward

\* Set, Get and Delete on a provider whose server is up, while time passes.
SpecRedis == InitOthers /\ [][NextRedis]_vars

\* parseRedisGetMessage before its first call; nothing else is looked at.
InitParse ==
    /\ LoaderInit /\ maxLoadTimeout = 0 /\ mu = NotTracked
    /\ direct = NotTracked /\ codec = NotTracked /\ noop = NotTracked
    /\ policy = NotTracked /\ facade = NotTracked
    /\ redis = ParseInit

NextParse == \E in \in ParseInputs : ParseCall(in.msg, in.err)

\* Calls of parseRedisGetMessage with every (message, error), in any order.
SpecParse == InitParse /\ [][NextParse]_vars

NextNoop ==
    \/ \E key \in RedisKeys : NoopProviderGet(key)
    \/ \E key \in RedisKeys, value \in RedisValues, ttl \in Ttls :
          NoopProviderSet(key, value, ttl)
    \/ \E key \in RedisKeys : NoopProviderDelete(key)

\* Set, Get and Delete on a NoopCacheProvider, in any order.
SpecNoop == InitOthers /\ [][NextNoop]_vars

NextPolicy ==
    \E enabled \in BOOLEAN, X \in ExpireAts, W \in Windows, beta \in Betas, u \in Draws :
        PolicyDecide(enabled, X, W, beta, u)

\* Decisions of the revalidation policy, one after the other.
SpecPolicy == InitOthers /\ [][NextPolicy]_vars

NextFacade ==
    \/ GetOrLoad
    \/ \E outcome \in {"hit", "miss", "error"} : FacadeGet(outcome)
    \/ \E ok \in BOOLEAN : FacadeDecode(ok)
    \/ \E enabled \in BOOLEAN, X \in ExpireAts, W \in Windows, beta \in Betas, u \in Draws :
          FacadePolicy(Revalidate(enabled, X, PolicyNow, W, beta, u))
    \/ \E v \in {Zero} \cup Vals, err \in {Nil} \cup LoaderErrs : FacadeLoad(v, err)
    \/ \E ok \in BOOLEAN : FacadeEncode(ok)
    \/ \E ok \in BOOLEAN : FacadeSet(ok)

\* GetOrLoad calls, one after the other, with every outcome of the provider,
\* the codec, the policy and the user's loader.
SpecFacade == InitOthers /\ [][NextFacade]_vars

TypeOK ==
    /\ pc \in [Callers -> {"idle", "enter", "select", "release"}]
    /\ \A r \in Recs : rec[r].refs \in Int /\ rec[r].done \in BOOLEAN
    /\ calls \in 0..MaxCalls
    /\ nextId \in 1..(MaxCalls + 1)

\* ================================================================ claims
\* The goroutines load has started for the record of newInflight call u.
GoroutinesOf(u) == {g \in GorIds : gor[g].use = u}

\* The goroutines whose loader is executing for key.
Running(key) == {g \in GorIds : gor[g].pc = "fetch" /\ gor[g].key = key}

\* The callers inside load that hold the record of newInflight call u.
Holders(u) == {c \in Callers : pc[c] # "idle" /\ loc[c].use = u}

\* C1 as stated: for every record exactly one goroutine calls the loader, and
\* a call that returns on the completion path returns the very (value, error)
\* the loader returned.
C1_Original ==
    /\ \A u \in 1..(nextId - 1) : Cardinality(GoroutinesOf(u)) = 1
    /\ \A c \in Callers :
          ret[c].path = "done" =>
              ret[c].fetched /\ ret[c].val = ret[c].fv /\ ret[c].err = ret[c].ferr

\* C1 amended: for every record exactly one goroutine calls the loader, and a
\* call that returns on the completion path returns the loader's error and,
\* when that error is nil, the loader's value; with an error it returns the
\* zero value.
C1_Coalescing ==
    /\ \A u \in 1..(nextId - 1) : Cardinality(GoroutinesOf(u)) = 1
    /\ \A c \in Callers :
          ret[c].path = "done" =>
              /\ ret[c].fetched
              /\ ret[c].err = ret[c].ferr
              /\ ret[c].val = IF ret[c].ferr = Nil THEN ret[c].fv ELSE Zero

\* Both callers acquired one record and returned on the completion path of a
\* loader that returned a value and an error.
C1_Witness ==
    /\ ret[1].path = "done" /\ ret[2].path = "done"
    /\ ret[1].use = ret[2].use
    /\ ret[1].ferr # Nil /\ ret[1].fv # Zero

\* C2 as stated: at most one goroutine is executing the loader for a key.
C2_Original == \A key \in Keys : Cardinality(Running(key)) <= 1

\* C2 amended: at most one goroutine is executing the loader for a key on a
\* record that a caller still holds (refs >= 1); a loader all its callers have
\* left may still be executing when a later load starts the next one.
C2_OneReferencedFetch ==
    \A key \in Keys :
        Cardinality({g \in Running(key) : rec[gor[g].inf].refs >= 1}) <= 1

\* Two loaders execute for one key, one of them for a record still held.
C2_Witness ==
    \E key \in Keys :
        /\ Cardinality(Running(key)) = 2
        /\ \E g \in Running(key) : rec[gor[g].inf].refs >= 1

\* C3: the call that creates a record is its leader and starts the goroutine;
\* a call that joins adds one to refs, is no leader and starts nothing; a
\* record has one leader; load returns the flag acquireInflight gave, on both
\* paths.
C3_OneLeader ==
    /\ [](\A u \in Ids : Cardinality({c \in Holders(u) : loc[c].leader}) <= 1)
    /\ [][\A c \in Callers :
            /\ (pc[c] = "idle" /\ pc'[c] # "idle" /\ nextId' # nextId) =>
                  /\ loc'[c].leader
                  /\ loc'[c].use = nextId
                  /\ rec'[loc'[c].inf].refs = 1
                  /\ Len(gor') = Len(gor) + 1
                  /\ gor'[Len(gor')].inf = loc'[c].inf
                  /\ gor'[Len(gor')].use = nextId
            /\ (pc[c] = "idle" /\ pc'[c] # "idle" /\ nextId' = nextId) =>
                  /\ ~loc'[c].leader
                  /\ rec'[loc'[c].inf].refs = rec[loc'[c].inf].refs + 1
                  /\ rec[loc'[c].inf].doneCh \notin chClosed
                  /\ gor' = gor
            /\ (pc[c] # "idle" /\ pc'[c] # "idle") => loc'[c].leader = loc[c].leader
            /\ (pc[c] # "idle" /\ pc'[c] = "idle") => ret'[c].leader = loc[c].leader
        ]_vars

\* Both callers acquired one record; its leader returned on the context path
\* as leader, the one that joined on the completion path as no leader.
C3_Witness ==
    \E c, d \in Callers :
        /\ ret[c].use = ret[d].use /\ ret[c].use # NoId
        /\ ret[c].leader /\ ret[c].path = "ctx"
        /\ ~ret[d].leader /\ ret[d].path = "done"

\* C4: a follower whose context is done while the loader is executing and
\* the leader waits returns (zero, false, ctx.Err()); its release leaves the
\* load context, the goroutine and the map alone; the leader then returns the
\* loader's value with a nil error, and the loader ran once.
C4_FollowerCancel ==
    /\ [][\A c \in Callers :
            (/\ pc[c] = "select" /\ pc'[c] = "idle" /\ ret'[c].path = "ctx"
             /\ ~loc[c].leader /\ ~loc[c].fetched
             /\ \E d \in Holders(loc[c].use) : d # c /\ loc[d].leader) =>
                /\ ret'[c].val = Zero /\ ~ret'[c].leader /\ ret'[c].err = Canceled
                /\ ctxCancelled' = ctxCancelled
                /\ gor' = gor
                /\ shards' = shards
                /\ rec'[loc[c].inf].refs >= 1
        ]_vars
    /\ [](\A l, f \in Callers :
            (/\ ret[f].path = "ctx" /\ ~ret[f].leader /\ ~ret[f].fetched
             /\ ret[l].use = ret[f].use
             /\ ret[l].path = "done" /\ ret[l].leader /\ ret[l].ferr = Nil) =>
                /\ ret[l].val = ret[l].fv /\ ret[l].val # Zero
                /\ ret[l].err = Nil
                /\ Cardinality(GoroutinesOf(ret[l].use)) = 1)

\* The follower left on its context before the loader returned, and the
\* leader returned the loader's value.
C4_Witness ==
    \E l, f \in Callers :
        /\ ret[f].path = "ctx" /\ ~ret[f].leader /\ ~ret[f].fetched
        /\ ret[l].use = ret[f].use
        /\ ret[l].path = "done" /\ ret[l].leader /\ ret[l].ferr = Nil

\* C5: a caller whose context is done returns from load, whether the loader
\* returns or not; if the loader has not returned by then, what it returns is
\* the zero value and the context's error.
C5_CancelReturns ==
    \A c \in Callers :
        (pc[c] # "idle" /\ ctxDone[c]) ~>
            (/\ pc[c] = "idle"
             /\ ret[c].path # "none"
             /\ (ret[c].fetched
                   \/ (ret[c].path = "ctx" /\ ret[c].val = Zero /\ ret[c].err = Canceled)))

\* The only caller of a record has returned the context's error, and the
\* loader it started is still executing.
C5_Witness ==
    \E c \in Callers, g \in GorIds :
        /\ ret[c].path = "ctx" /\ ret[c].leader /\ ret[c].err = Canceled
        /\ gor[g].use = ret[c].use /\ gor[g].pc = "fetch"
        /\ rec[gor[g].inf].refs = 0

\* C6: a load context that is cancelled belongs to a record with refs <= 0;
\* the context of an executing loader is not cancelled while a caller holds
\* its record.
C6_CancelOnlyAtZero ==
    /\ \A r \in Recs : rec[r].ctx \in ctxCancelled => rec[r].refs <= 0
    /\ \A g \in GorIds :
          (gor[g].pc = "fetch" /\ Holders(gor[g].use) # {}) =>
              gor[g].loadCtx \notin ctxCancelled

\* The leader left on its context; the other caller still holds the record,
\* whose loader executes with a context that is not cancelled.
C6_Witness ==
    \E c, d \in Callers, g \in GorIds :
        /\ ret[c].path = "ctx" /\ ret[c].leader
        /\ d \in Holders(ret[c].use)
        /\ gor[g].use = ret[c].use /\ gor[g].pc = "fetch"
        /\ gor[g].loadCtx \notin ctxCancelled

\* C7: when no call is between acquireInflight and releaseInflight, every
\* shard's map is empty.
C7_MapEmptyWhenIdle ==
    (\A c \in Callers : pc[c] = "idle") =>
        \A s \in ShardIdx, key \in Keys : shards[s][key] = NoInf

\* No call is inside load; one ended on its context, one on completion, and a
\* loader is still executing.
C7_Witness ==
    /\ \A c \in Callers : pc[c] = "idle"
    /\ \E c, d \in Callers : ret[c].path = "ctx" /\ ret[d].path = "done"
    /\ \E g \in GorIds : gor[g].pc = "fetch"

\* C8: a record sits in the pool at most once and is put at most once per
\* use; a pooled record is done and has refs <= 0.
C8_PooledOnce ==
    \A r \in Recs :
        /\ pool[r] <= 1
        /\ puts[r] <= 1
        /\ pool[r] = 1 => rec[r].pooled
        /\ rec[r].pooled <=> puts[r] = 1
        /\ rec[r].pooled => (rec[r].done /\ rec[r].refs <= 0)

\* A pooled record was released once more after it was put.
C8_Witness ==
    \E r \in Recs : rec[r].pooled /\ rec[r].refs < 0 /\ puts[r] = 1 /\ pool[r] = 1

\* C9: when the loader returned a non-nil error, a call that returns on the
\* completion path returns (zero, its leader flag, that error).
C9_ErrorPropagated ==
    /\ [](\A c \in Callers : pc[c] = "release" => loc[c].fetched)
    /\ [][\A c \in Callers :
            (pc[c] = "release" /\ pc'[c] = "idle" /\ loc[c].ferr # Nil) =>
                /\ ret'[c].path = "done"
                /\ ret'[c].val = Zero
                /\ ret'[c].leader = loc[c].leader
                /\ ret'[c].err = loc[c].ferr
        ]_vars

\* Leader and follower of one record both returned the error of a loader
\* that returned a value with it.
C9_Witness ==
    \E c, d \in Callers :
        /\ ret[c].use = ret[d].use
        /\ ret[c].leader /\ ~ret[d].leader
        /\ ret[c].path = "done" /\ ret[d].path = "done"
        /\ ret[c].err = "boom" /\ ret[d].err = "boom"
        /\ ret[c].fv # Zero /\ ret[c].val = Zero /\ ret[d].val = Zero

\* C10 as stated: RecordLoadConcurrency is called once for every loader that
\* returned, and every value it is called with is >= 1.
C10_Original ==
    /\ metrics.concurrency = Cardinality({g \in GorIds : gor[g].pc = "exit"})
    /\ metrics.concurrency > 0 => metrics.least >= 1

C12_DirectNeverCoalesces ==
    /\ direct.invoked = direct.calls
    /\ gor = <<>>
    /\ \A c \in Callers :
          LET d == direct.call[c]
          IN  /\ d.pc = "loader" => d.loaderCtx = CallerCtx(c) /\ d.ctx = CallerCtx(c)
              /\ d.returned =>
                    /\ d.leader
                    /\ d.ferr = Nil => (d.val = d.fv /\ d.err = Nil)
                    /\ d.ferr # Nil => (d.val = Zero /\ d.err = d.ferr)

\* Two calls run the loader for one key at once, after an earlier call that
\* has returned: three calls, three invocations.
C12_Witness ==
    /\ direct.invoked = 3
    /\ \A c \in Callers : direct.call[c].pc = "loader" /\ direct.call[c].key = "k1"

\* The inner codec of the codec decodes what it encodes of value.
InnerRoundTrips(value) ==
    LET e == innerEncode(codec.b.inner, value)
        d == innerDecode(codec.b.inner, e.buf)
    IN  e.err = Nil /\ d.err = Nil /\ d.obj = value

\* C13: Decode of what Encode returned gives the object that was encoded and
\* a nil error, for every threshold and every object the inner codec itself
\* round-trips, compressed or not, also when the inner payload is empty.
C13_RoundTrip ==
    (codec.op = "RoundTrip" /\ InnerRoundTrips(codec.value)) =>
        codec.err = Nil /\ codec.obj = codec.value

\* A compressed frame of an empty inner payload was decoded to its object.
C13_Witness ==
    /\ codec.op = "RoundTrip" /\ InnerRoundTrips(codec.value)
    /\ codec.b.inner.kind = "empty"
    /\ codec.data[1] = CompressionTypeIDZlib
    /\ codec.obj = codec.value /\ codec.acquired = 1

\* C14: Encode's frame starts with 0x01 exactly when the threshold T is >= 0
\* and the inner payload has n >= T bytes; otherwise it starts with 0x00 and
\* goes on with the inner payload as it is, 1 + n bytes in all.
C14_Threshold ==
    (codec.op = "Encode" /\ codec.err = Nil) =>
        LET inner == innerEncode(codec.b.inner, codec.value).buf
            n == Len(inner)
            T == codec.b.compressThresholdBytes
        IN  /\ Len(codec.buf) >= 1
            /\ codec.buf[1] = CompressionTypeIDZlib <=> (T >= 0 /\ n >= T)
            /\ codec.buf[1] # CompressionTypeIDZlib =>
                  /\ codec.buf[1] = CompressionTypeIDNone
                  /\ Tail(codec.buf) = inner
                  /\ Len(codec.buf) = 1 + n

\* A payload as long as the threshold was compressed.
C14_Witness ==
    /\ codec.op = "Encode" /\ codec.err = Nil
    /\ codec.b.compressThresholdBytes = 4
    /\ Len(innerEncode(codec.b.inner, codec.value).buf) = 4
    /\ codec.buf[1] = CompressionTypeIDZlib

\* C15 as stated: Decode of a frame whose first byte is neither 0x00 nor 0x01
\* returns an error that matches ErrUnsupportedCompressionTypeID, and does not
\* call the inner decoder.
C15_Original ==
    (/\ codec.op = "Decode" /\ codec.data # <<>>
     /\ codec.data[1] \notin {CompressionTypeIDNone, CompressionTypeIDZlib}) =>
        /\ errorsIs(codec.err, ErrUnsupportedCompressionTypeID)
        /\ codec.innerDecodes = 0

\* C16: Decode of empty input returns ErrDecompressZeroLengthData and the zero
\* object, calls no inner decoder and takes no buffer from the pool.
C16_ZeroLengthInput ==
    (codec.op \in {"Decode", "RoundTrip"} /\ Len(codec.data) = 0) =>
        /\ errorsIs(codec.err, ErrDecompressZeroLengthData)
        /\ codec.obj = ZeroObject
        /\ codec.innerDecodes = 0
        /\ codec.acquired = 0

\* Empty input was decoded while a buffer sat idle in the pool.
C16_Witness ==
    /\ codec.op = "Decode" /\ codec.data = <<>>
    /\ codec.err = ErrDecompressZeroLengthData
    /\ codec.bufPool = 1

\* The ttl of the last Set of key has elapsed.
TtlElapsed(key) ==
    LET w == redis.written[key]
    IN  w.op = "Set" /\ w.ttl > 0 /\ redis.now >= w.at + w.ttl

\* C17: a Get returns (v, true, nil) when the last Set or Delete of its key
\* was Set(k, v, ttl) and the ttl is 0 or has not elapsed; it returns
\* (nil, false, nil) when that was a Delete or the ttl has elapsed; Delete
\* returns nil with and without an entry for the key.
C17_GetSetDelete ==
    LET l == redis.last
        w == redis.written[l.key]
    IN  /\ (l.op = "Get" /\ w.op = "Set" /\ ~TtlElapsed(l.key)) =>
              (l.val = w.value /\ l.ok /\ l.err = Nil)
        /\ (l.op = "Get" /\ (w.op = "Delete" \/ TtlElapsed(l.key))) =>
              (l.val = NilBytes /\ ~l.ok /\ l.err = Nil)
        /\ l.op = "Delete" => l.err = Nil

\* A Get missed an entry whose ttl had elapsed, while the other key's entry,
\* set without ttl before it, was still there.
C17_Witness ==
    /\ redis.last.op = "Get" /\ redis.last.key = "key" /\ ~redis.last.ok
    /\ TtlElapsed("key")
    /\ redis.written["other"].op = "Set" /\ redis.written["other"].ttl = 0
    /\ EntryLive(redis.db["other"], redis.now)
    /\ redis.db["key"].kind = "string"

\* C18: every Get of a NoopCacheProvider returns (zero, false, nil), whatever
\* was Set or Deleted before, and every Set and Delete returns nil.
C18_NoopAlwaysMisses ==
    /\ noop.last.op = "Get" =>
          (noop.last.val = ZeroS /\ ~noop.last.ok /\ noop.last.err = Nil)
    /\ noop.last.op \in {"Set", "Delete"} => noop.last.err = Nil

\* A Get missed a key whose last call was a Set of a value.
C18_Witness ==
    /\ noop.last.op = "Get" /\ ~noop.last.ok
    /\ noop.written[noop.last.key].op = "Set"
    /\ noop.written[noop.last.key].value # ZeroS

\* C19: a hit with remainingMs = X - now <= 0 is a miss; with
\* remainingMs >= W it is served; in between it is refreshed exactly when
\* u < ((W - remainingMs) / W)^beta and served otherwise (beta = 1/2: u^2 < q,
\* beta = 1: u < q, beta = 2: u < q^2, as quotients of naturals; W = 100,
\* beta = 1, remainingMs = 50: u = 1/4 refreshes, u = 3/4 serves); a disabled
\* policy never refreshes.
C19_RevalidationDecision ==
    policy.decision # "none" =>
        LET r == policy.X - policy.now
            W == policy.W
            n == policy.u.num
            d == policy.u.den
            below ==
                CASE policy.beta = Ratio(1, 2) -> n * n * W < (W - r) * d * d
                  [] policy.beta = Ratio(1, 1) -> n * W < (W - r) * d
                  [] policy.beta = Ratio(2, 1) -> n * W * W < (W - r) * (W - r) * d
        IN  /\ r <= 0 => policy.decision = "miss"
            /\ (r > 0 /\ r >= W) => policy.decision = "serve"
            /\ (r > 0 /\ r < W /\ policy.enabled) =>
                  policy.decision = (IF below THEN "refresh" ELSE "serve")
            /\ ~policy.enabled => policy.decision # "refresh"
            /\ (policy.enabled /\ W = 100 /\ policy.beta = Ratio(1, 1) /\ r = 50) =>
                  /\ policy.u = Ratio(1, 4) => policy.decision = "refresh"
                  /\ policy.u = Ratio(3, 4) => policy.decision = "serve"

\* With W = 100, beta = 1/2 and 75 ms left, p = 1/2: the draw 1/4 refreshed.
C19_Witness ==
    /\ policy.decision = "refresh"
    /\ policy.W = 100 /\ policy.beta = Ratio(1, 2) /\ policy.X - policy.now = 75
    /\ policy.u = Ratio(1, 4)

\* C20: a GetOrLoad call whose loader succeeded and whose encode or set then
\* failed has emitted the metric of that failure last, returns the loaded
\* value with a nil error, and has called the loader once.
C20_StoreFailureSwallowed ==
    (facade.returned /\ facade.storeErr # Nil) =>
        /\ facade.emitted # <<>>
        /\ facade.emitted[Len(facade.emitted)] =
              (IF facade.storeErr = CodecErr THEN "RecordCodecError"
               ELSE "RecordProviderError")
        /\ facade.val = facade.loaded
        /\ facade.err = Nil
        /\ facade.loaderCalls = 1

\* After a provider error on get, the loader's value was returned although
\* the set failed as well.
C20_Witness ==
    /\ facade.returned /\ facade.storeErr = ProviderErr
    /\ facade.emitted = <<"RecordProviderError", "RecordMiss", "RecordProviderError">>
    /\ facade.val = 7 /\ facade.err = Nil /\ facade.loaderCalls = 1

\* The callers inside load that hold struct r.
HoldersOf(r) == {c \in Callers : pc[c] # "idle" /\ loc[c].inf = r}

\* C21: an acquire that finds the key's entry with its done channel closed
\* creates a record with refs = 1 in another struct, puts it in the map,
\* makes the caller its leader with a goroutine of its own, and leaves the old
\* record as it was; a call that returns on the completion path returns what
\* the loader of its own record returned, not what the old record holds.
C21_Supersede ==
    /\ [][\A c \in Callers :
            LET key == loc'[c].key
                s == shardFor(key)
                old == shards[s][key]
                new == loc'[c].inf
            IN  (/\ pc[c] = "idle" /\ pc'[c] # "idle"
                 /\ old # NoInf /\ rec[old].doneCh \in chClosed) =>
                    /\ new # old
                    /\ nextId' = nextId + 1
                    /\ rec'[new].refs = 1 /\ rec'[new].doneCh = nextId
                    /\ ~rec'[new].done /\ rec'[new].doneCh \notin chClosed'
                    /\ shards'[s][key] = new
                    /\ loc'[c].leader
                    /\ loc'[c].use = nextId /\ loc'[c].use # rec[old].doneCh
                    /\ rec'[old] = rec[old]
                    /\ Len(gor') = Len(gor) + 1
                    /\ gor'[Len(gor')].inf = new /\ gor'[Len(gor')].use = nextId
        ]_vars
    /\ [](\A c \in Callers :
            ret[c].path = "done" =>
                /\ ret[c].fetched /\ ret[c].err = ret[c].ferr
                /\ ret[c].val = IF ret[c].ferr = Nil THEN ret[c].fv ELSE Zero)

\* A caller still holds a record whose loader returned an error; the other
\* caller leads a newer record of the same key, which the map holds, and has
\* read the value its own loader returned.
C21_Witness ==
    \E c, d \in Callers :
        /\ pc[d] # "idle" /\ loc[d].fetched /\ loc[d].ferr = "boom"
        /\ pc[c] = "release" /\ loc[c].leader /\ loc[c].key = loc[d].key
        /\ loc[c].use > loc[d].use /\ loc[c].inf # loc[d].inf
        /\ shards[loc[c].shard][loc[c].key] = loc[c].inf
        /\ rec[loc[d].inf].refs = 1
        /\ loc[c].ferr = Nil /\ loc[c].v = 7 /\ loc[c].err = Nil

\* C22: a release changes the map only by deleting the entry of the record it
\* releases, and only when that was the last reference; when the map holds
\* another record for the key, the release leaves the map, that record and
\* that record's load context as they were.
C22_ReleaseKeepsNewer ==
    [][\A c \in Callers :
          LET r == loc[c].inf
              key == loc[c].key
              s == loc[c].shard
              cur == shards[s][key]
          IN  (pc[c] # "idle" /\ pc'[c] = "idle") =>
                  /\ shards' # shards =>
                        /\ cur = r /\ rec[r].refs = 1
                        /\ shards' = [shards EXCEPT ![s][key] = NoInf]
                  /\ (cur # NoInf /\ cur # r) =>
                        /\ shards' = shards
                        /\ rec'[cur] = rec[cur]
                        /\ (rec[cur].ctx \in ctxCancelled') = (rec[cur].ctx \in ctxCancelled)
      ]_vars

\* The last holder of a record that is done has returned; the struct is in
\* the pool, and a newer record of the same key is in the map, held by the
\* other caller with refs = 1, not done, its load context not cancelled.
C22_Witness ==
    \E c, d \in Callers, g \in GorIds :
        /\ pc[d] = "idle" /\ ret[d].path = "done" /\ ret[d].fetched
        /\ pc[c] # "idle" /\ loc[c].use > ret[d].use
        /\ gor[g].use = loc[c].use
        /\ shards[loc[c].shard][loc[c].key] = loc[c].inf
        /\ rec[loc[c].inf].refs = 1 /\ ~rec[loc[c].inf].done
        /\ rec[loc[c].inf].ctx \notin ctxCancelled
        /\ \E r \in Recs : r # loc[c].inf /\ rec[r].doneCh = ret[d].use
                             /\ rec[r].refs = 0 /\ pool[r] = 1

\* C23: every record a shard's map holds has refs >= 1.
C23_MappedRefsPositive ==
    \A s \in ShardIdx, key \in Keys :
        shards[s][key] # NoInf => rec[shards[s][key]].refs >= 1

\* One of the two callers of a record has returned on its context; the
\* record is still in the map, with refs = 1, and its loader has returned.
C23_Witness ==
    \E c, d \in Callers :
        /\ pc[d] = "idle" /\ ret[d].path = "ctx"
        /\ pc[c] # "idle" /\ loc[c].use = ret[d].use
        /\ shards[loc[c].shard][loc[c].key] = loc[c].inf
        /\ rec[loc[c].inf].refs = 1 /\ rec[loc[c].inf].done

\* C24: the refs of every struct is the number of load calls that are
\* between their acquireInflight and their releaseInflight on it, and so is
\* never negative; a call that returns, on either path, takes one from it.
C24_RefsCountHolders ==
    \A r \in Recs :
        /\ rec[r].refs = Cardinality(HoldersOf(r))
        /\ rec[r].refs >= 0

\* The two callers of one record have returned, one on its context and one
\* on the completion path, and the record's refs is 0.
C24_Witness ==
    \E c, d \in Callers, r \in Recs :
        /\ pc[c] = "idle" /\ pc[d] = "idle"
        /\ ret[c].path = "ctx" /\ ret[d].path = "done"
        /\ ret[c].use = ret[d].use /\ rec[r].doneCh = ret[c].use
        /\ rec[r].refs = 0

\* C25: no channel is closed twice; a record is done exactly when its done
\* channel is closed, and the channel of every loader that returned is
\* closed; the step that sets done closes that one channel, is the end of a
\* goroutine of that record and stores the value and the error the loader
\* returned; a closed channel stays closed, and done goes back to false only
\* in a newInflight call on a struct no caller holds.
C25_DoneOnce ==
    /\ [](/\ ~panicked
          /\ \A r \in allocated : rec[r].done <=> rec[r].doneCh \in chClosed
          /\ \A g \in GorIds : gor[g].pc = "exit" <=> gor[g].use \in chClosed)
    /\ [][/\ chClosed \subseteq chClosed'
          /\ \A r \in Recs :
                /\ (~rec[r].done /\ rec'[r].done) =>
                      /\ rec[r].doneCh \notin chClosed
                      /\ chClosed' = chClosed \cup {rec[r].doneCh}
                      /\ rec'[r].doneCh = rec[r].doneCh
                      /\ \E g \in GorIds :
                            /\ gor[g].pc = "fetch" /\ gor'[g].pc = "exit"
                            /\ gor[g].inf = r /\ gor[g].use = rec[r].doneCh
                      /\ \A c \in HoldersOf(r) :
                            /\ loc'[c].fetched
                            /\ loc'[c].fv = rec'[r].val /\ loc'[c].ferr = rec'[r].err
                /\ (rec[r].done /\ ~rec'[r].done) =>
                      /\ HoldersOf(r) = {} /\ rec[r].refs <= 0
                      /\ nextId' = nextId + 1 /\ rec'[r].doneCh = nextId
        ]_vars

\* A struct is in its second use: the record is not done and its channel is
\* open, while the channel of its first use is closed, and it has two holders.
C25_Witness ==
    \E r \in Recs :
        /\ allocated = {r} /\ rec[r].doneCh = 2 /\ ~rec[r].done
        /\ 1 \in chClosed /\ 2 \notin chClosed
        /\ Cardinality(HoldersOf(r)) = 2

\* C26: the step of load that reads inf.val and inf.err is taken when the
\* record's done channel is closed and the caller still holds its reference,
\* and reads what the loader of that record returned; a caller that has read
\* them and not yet released holds a record that is done.
C26_ReadAfterDone ==
    /\ [][\A c \in Callers :
            LET r == loc[c].inf
            IN  (pc[c] = "select" /\ pc'[c] = "release") =>
                    /\ rec[r].doneCh \in chClosed /\ rec[r].done
                    /\ rec[r].doneCh = loc[c].use
                    /\ rec[r].refs >= 1 /\ c \in HoldersOf(r)
                    /\ loc[c].fetched
                    /\ loc'[c].v = loc[c].fv /\ loc'[c].err = loc[c].ferr
        ]_vars
    /\ [](\A c \in Callers :
            pc[c] = "release" =>
                /\ rec[loc[c].inf].done /\ rec[loc[c].inf].doneCh = loc[c].use
                /\ rec[loc[c].inf].refs >= 1)

\* Leader and follower of one record have both read the loader's value and
\* error, and neither has released.
C26_Witness ==
    \E c, d \in Callers :
        /\ c # d /\ pc[c] = "release" /\ pc[d] = "release"
        /\ loc[c].inf = loc[d].inf /\ rec[loc[c].inf].refs = 2
        /\ loc[c].v = 7 /\ loc[d].v = 7 /\ loc[c].err = "boom" /\ loc[d].err = "boom"

\* C27: the struct acquireInflight installs, new or from the pool, has
\* refs = 1, done and pooled false, the zero value, a nil error, a channel
\* that is not closed and a load context that is not cancelled, both made by
\* this call; a caller waits on the channel of its own record and reads what
\* the loader of its own record returned, and a loader runs with the context
\* of its own record.
C27_ResetOnReuse ==
    /\ [][\A c \in Callers :
            LET r == loc'[c].inf
            IN  (pc[c] = "idle" /\ pc'[c] # "idle" /\ nextId' # nextId) =>
                    /\ rec'[r].refs = 1 /\ ~rec'[r].done /\ ~rec'[r].pooled
                    /\ rec'[r].val = Zero /\ rec'[r].err = Nil
                    /\ rec'[r].doneCh = nextId /\ rec'[r].doneCh \notin chClosed'
                    /\ rec'[r].ctx = nextId /\ rec'[r].ctx \notin ctxCancelled'
                    /\ rec'[r].cancel = rec'[r].ctx
                    /\ rec'[r].doneCh # rec[r].doneCh /\ rec'[r].ctx # rec[r].ctx
                    /\ pool'[r] = 0
                    /\ shards'[loc'[c].shard][loc'[c].key] = r
        ]_vars
    /\ [](\A c \in Callers :
            pc[c] # "idle" =>
                /\ rec[loc[c].inf].doneCh = loc[c].use
                /\ pc[c] \in {"select", "release"} => loc[c].doneCh = loc[c].use
                /\ pc[c] = "release" =>
                      /\ loc[c].fetched
                      /\ loc[c].v = loc[c].fv /\ loc[c].err = loc[c].ferr)
    /\ [](\A g \in GorIds : gor[g].pc = "fetch" => gor[g].loadCtx = gor[g].use)

\* The only struct ever made is in its second use: the call of the first use
\* returned the loader's error, and the caller of the second use has read the
\* value and the nil error of its own loader.
C27_Witness ==
    \E c, d \in Callers, r \in Recs :
        /\ allocated = {r}
        /\ ret[d].path = "done" /\ ret[d].use = 1 /\ ret[d].err = "boom"
        /\ pc[c] = "release" /\ loc[c].inf = r /\ loc[c].use = 2
        /\ loc[c].v = 7 /\ loc[c].err = Nil

\* C29: the release that takes refs to 0 calls the record's cancel function,
\* and no other release cancels anything; the context of a loader whose record
\* no caller holds is done, and in the end every loader whose record no
\* caller holds has returned, as a loader that waits on its context does; when
\* no call is inside load, every load context made so far is cancelled.
C29_CancelAtLastRelease ==
    /\ [][\A c \in Callers :
            LET r == loc[c].inf
            IN  (pc[c] # "idle" /\ pc'[c] = "idle") =>
                    /\ rec[r].refs = 1 =>
                          /\ rec[r].cancel = loc[c].use
                          /\ ctxCancelled' = ctxCancelled \cup {rec[r].cancel}
                    /\ rec[r].refs > 1 => ctxCancelled' = ctxCancelled
        ]_vars
    /\ [](\A g \in GorIds :
            (gor[g].pc = "fetch" /\ Holders(gor[g].use) = {}) =>
                /\ gor[g].loadCtx = gor[g].use
                /\ gor[g].loadCtx \in ctxCancelled)
    /\ []((\A c \in Callers : pc[c] = "idle") =>
              \A id \in 1..(nextId - 1) : id \in ctxCancelled)
    /\ <>[](\A g \in GorIds : Holders(gor[g].use) = {} => gor[g].pc = "exit")

\* Both callers of a record left on their contexts before its loader
\* returned; the loader then found its context done and returned its error.
C29_Witness ==
    \E c, d \in Callers, g \in GorIds, r \in Recs :
        /\ c # d /\ pc[c] = "idle" /\ pc[d] = "idle"
        /\ ret[c].path = "ctx" /\ ret[d].path = "ctx" /\ ret[c].use = ret[d].use
        /\ ~ret[c].fetched /\ ~ret[d].fetched
        /\ gor[g].use = ret[c].use /\ gor[g].pc = "exit"
        /\ rec[r].doneCh = ret[c].use /\ rec[r].done /\ rec[r].err = Canceled
        /\ rec[r].ctx \in ctxCancelled

\* C30 as stated: every call of Encode and of Decode has given back to
\* bufPool, when it returns, every buffer it took from it, whatever
\* canReleaseBufferOnDecode is.
C30_Original ==
    codec.op # "none" => codec.returned = codec.acquired

\* C30 amended: every call of Encode, and every call of Decode on a codec
\* whose canReleaseBufferOnDecode is true, has given back to bufPool, when it
\* returns, every buffer it took from it, on success and on every error path.
C30_BuffersReturned ==
    (codec.op = "Encode" \/ (codec.op # "none" /\ codec.b.canReleaseBufferOnDecode)) =>
        codec.returned = codec.acquired

\* A Decode that took a buffer and failed to inflate the payload, on a codec
\* whose inner codec allows the release, has given the buffer back.
C30_Witness ==
    /\ codec.op = "Decode" /\ codec.b.canReleaseBufferOnDecode
    /\ codec.data # <<>> /\ codec.data[1] = CompressionTypeIDZlib
    /\ codec.err # Nil /\ codec.innerDecodes = 0
    /\ codec.acquired = 1 /\ codec.returned = 1 /\ codec.bufPool = 1

\* C28: while the loader of k1 never returns, no caller of k1 gets a result;
\* a caller that holds a mutex is not waiting in the select, and a goroutine
\* that holds one has its loader behind it; and in the end no mutex is held,
\* no call is blocked in Lock, every loader of another key has returned, and
\* the only calls still inside load are those waiting for k1 with a context
\* that is not done: a load of k2 on the same shard has acquired, run its
\* loader and returned, and a caller that joined k1 has left once its
\* context was done.
C28_NoLockWhileWaiting ==
    /\ [](/\ \A c \in Callers :
                /\ (pc[c] # "idle" /\ loc[c].key = BlockedKey) => ~loc[c].fetched
                /\ ret[c].path = "done" => ret[c].fetched
                /\ (HoldsLock(<<"caller", c>>) /\ pc[c] = "select") => ctxDone[c]
          /\ \A g \in GorIds :
                HoldsLock(<<"go", g>>) =>
                    gor[g].pc = "exit" \/ (gor[g].pc = "fetch" /\ gor[g].key # BlockedKey))
    /\ <>[](/\ \A s \in ShardIdx : mu.lock[s] = NoHolder
            /\ \A c \in Callers :
                  /\ mu.calling[c] = NoKey
                  /\ pc[c] # "idle" =>
                        pc[c] = "select" /\ loc[c].key = BlockedKey /\ ~ctxDone[c]
            /\ \A g \in GorIds :
                  gor[g].pc = "exit" \/ (gor[g].pc = "fetch" /\ gor[g].key = BlockedKey))

\* The leader of k1 waits for its loader, which is running; on the same
\* shard a load of k2 has run its loader and returned, and the other caller
\* has since joined k1 and left on its context; no mutex is held.
C28_Witness ==
    \E c, d \in Callers, g \in GorIds :
        /\ shardFor("k1") = shardFor("k2")
        /\ pc[c] = "select" /\ loc[c].key = BlockedKey /\ loc[c].leader
        /\ gor[g].use = loc[c].use /\ gor[g].pc = "fetch"
        /\ metrics.concurrency = 1 /\ calls = 3
        /\ pc[d] = "idle" /\ ret[d].path = "ctx" /\ ~ret[d].leader
        /\ ret[d].use = loc[c].use
        /\ \A s \in ShardIdx : mu.lock[s] = NoHolder

\* C31: parseRedisGetMessage returns (nil, false, nil) for a null message
\* and for the error rueidis.Nil; for any other error it returns
\* (nil, false, err) with that very error; for a message that is not null
\* and cannot be read as bytes it returns (nil, false, an error); and it
\* returns found = true with a nil error only.
C31_ParseGetMessage ==
    redis.called =>
        LET o == redis.out
            miss == redis.msg.typ = "null" \/ redis.err = RedisNil
        IN  /\ miss => (o.val = NilBytes /\ ~o.ok /\ o.err = Nil)
            /\ (~miss /\ redis.err # Nil) =>
                  (o.val = NilBytes /\ ~o.ok /\ o.err = redis.err)
            /\ (~miss /\ redis.err = Nil /\ redis.msg.typ # "string") =>
                  (o.val = NilBytes /\ ~o.ok /\ o.err # Nil)
            /\ o.ok => (o.err = Nil /\ o.val = redis.msg.val)

\* A null message that came with an error other than rueidis.Nil was a
\* clean miss.
C31_Witness ==
    /\ redis.called
    /\ redis.msg = newRedisNullMessage /\ redis.err = "boom"
    /\ redis.out = [val |-> NilBytes, ok |-> FALSE, err |-> Nil]
\* The struct r is in use by a load call or by a goroutine that has not left
\* finishInflight's critical section.
InUse(r) ==
    \/ \E c \in Callers : pc[c] # "idle" /\ loc[c].inf = r
    \/ \E g \in GorIds : gor[g].pc # "exit" /\ gor[g].inf = r

\* C32: a record that was put in the pool (pooled = true) is the map entry
\* of no key, is held by no load call between acquire and release, and its
\* goroutine has run finishInflight; a struct sits in the pool only with
\* pooled = true; and the struct newInflight resets is in use by no caller
\* and by no goroutine.
C32_NoUseAfterRecycle ==
    /\ [](\A r \in Recs :
            /\ pool[r] > 0 => rec[r].pooled
            /\ rec[r].pooled =>
                  /\ \A s \in ShardIdx, k \in Keys : shards[s][k] # r
                  /\ ~InUse(r)
                  /\ rec[r].done /\ rec[r].doneCh \in chClosed)
    /\ [][\A r \in Recs : rec'[r].doneCh # rec[r].doneCh => ~InUse(r)]_vars

\* A struct was recycled: the one struct made so far serves its second
\* record, which a caller holds and whose loader is running.
C32_Witness ==
    \E r \in Recs :
        /\ allocated = {r} /\ rec[r].doneCh = 2 /\ ~rec[r].pooled
        /\ \E c \in Callers : pc[c] = "select" /\ loc[c].inf = r
        /\ \E g \in GorIds : gor[g].pc = "fetch" /\ gor[g].inf = r
\* C33: a record that is not done and has refs >= 1 is the map entry of the
\* key of every caller that holds it, and it has such a caller; and a call
\* of load for a key, made while a caller holds a record of that key that is
\* not done, joins that record: same struct and use, leader = false, refs
\* one more, no new record and no new goroutine.
C33_UnfinishedIsCurrent ==
    /\ [](\A r \in allocated :
            (~rec[r].done /\ rec[r].refs >= 1) =>
                /\ HoldersOf(r) # {}
                /\ \A c \in HoldersOf(r) : shards[loc[c].shard][loc[c].key] = r)
    /\ [][\A c, w \in Callers :
            (/\ pc[c] = "idle" /\ pc'[c] = "enter"
             /\ pc[w] # "idle" /\ loc[w].key = loc'[c].key
             /\ ~rec[loc[w].inf].done)
            => /\ loc'[c].inf = loc[w].inf /\ loc'[c].use = loc[w].use
               /\ ~loc'[c].leader
               /\ rec'[loc[w].inf].refs = rec[loc[w].inf].refs + 1
               /\ nextId' = nextId /\ gor' = gor]_vars

\* The caller that started a fetch left on its context and called again
\* for the key while the other caller was waiting: both now hold the record
\* as followers, and its fetch is the only one of the key.
C33_Witness ==
    \E r \in Recs :
        /\ HoldersOf(r) = Callers /\ rec[r].refs = 2 /\ ~rec[r].done
        /\ \A c \in Callers : ~loc[c].leader /\ loc[c].key = "k2"
        /\ nextId = 2 /\ Len(gor) = 1
\* Caller c is inside a call of load: blocked in the Lock of acquireInflight,
\* between acquire and release, or before the Unlock of its release.
InLoad(c) ==
    pc[c] # "idle" \/ mu.calling[c] # NoKey \/ HoldsLock(<<"caller", c>>)

\* Caller c has a step of load before it that does not wait for the loader
\* of k1: it is blocked in Lock, holds a mutex, or is past acquireInflight
\* with a loader that returns (every key but k1) or with a context that is done.
Pending(c) ==
    \/ c \in Blocked
    \/ HoldsLock(<<"caller", c>>)
    \/ pc[c] # "idle" /\ (loc[c].key # BlockedKey \/ ctxDone[c])

\* C34: with the mutexes taken and released step by step, two keys on one
\* shard and fair scheduling, no call of load stays for ever blocked in
\* Lock, in a critical section, or inside load with a loader that returns or
\* with a context that is done; and such a call stops being so only by
\* returning from load with a result and without a mutex, or, for k1, by
\* leaving acquireInflight to wait for a loader that never returns.
C34_LoadTerminates ==
    /\ \A c \in Callers : []<>(~Pending(c))
    /\ [][\A c \in Callers :
            (Pending(c) /\ ~Pending(c)') =>
                \/ ~InLoad(c)' /\ ret'[c].path # "none"
                \/ pc'[c] = "enter" /\ loc'[c].key = BlockedKey /\ ~ctxDone'[c]]_vars

\* One caller led a fetch of k2 that the other joined and got the result
\* of; later it led a fetch of k1, whose loader is still running, and left
\* on its context; the keys share a shard and no mutex is held.
C34_Witness ==
    \E c, d \in Callers, g \in GorIds :
        /\ shardFor("k1") = shardFor("k2")
        /\ ~InLoad(c) /\ ~InLoad(d)
        /\ ret[c].path = "done" /\ ~ret[c].leader /\ ret[c].fetched
        /\ ret[d].path = "ctx" /\ ret[d].leader
        /\ gor[g].use = ret[d].use /\ gor[g].pc = "fetch" /\ gor[g].key = BlockedKey
        /\ \A s \in ShardIdx : mu.lock[s] = NoHolder
\* C35: a record whose loader has returned (finishInflight has run) and
\* that no caller holds any more has been put in the pool, once, and sits
\* there once until newInflight takes it out; a record whose loader has not
\* returned or that a caller holds has not been put.
C35_NoRecordLeak ==
    \A r \in allocated :
        IF rec[r].done /\ HoldersOf(r) = {}
        THEN rec[r].pooled /\ puts[r] = 1 /\ pool[r] = 1
        ELSE ~rec[r].pooled /\ puts[r] = 0 /\ pool[r] = 0

\* Two records are in the pool.  The caller of one returned the loader's
\* result, so its release came after finishInflight and put it; the caller
\* of the other left on its context before its loader returned, so
\* finishInflight, coming last with refs = 0, put it.
C35_Witness ==
    \E c, d \in Callers :
        /\ \A r \in Recs : r \in allocated /\ pool[r] = 1 /\ puts[r] = 1
        /\ pc[c] = "idle" /\ ret[c].path = "done" /\ ret[c].leader
        /\ pc[d] = "idle" /\ ret[d].path = "ctx" /\ ret[d].leader /\ ~ret[d].fetched
        /\ ret[c].use # ret[d].use
        /\ \A g \in GorIds : gor[g].pc = "exit"
        /\ metrics.least = 0 /\ nextId = 3
\* Caller l led the record of newInflight call u and has left load on its
\* context.
LeaderLeft(l, u) == ret[l].path = "ctx" /\ ret[l].leader /\ ret[l].use = u

\* While a caller holds a record whose leader has left on its context: the
\* record counts the caller, its load context is not cancelled, one
\* goroutine was started for it, and until the loader has returned the record
\* is the map entry of its key and that goroutine is on its way, its loader
\* running with the record's context.
FollowerKeepsFetch ==
    \A l, f \in Callers :
        (pc[f] # "idle" /\ LeaderLeft(l, loc[f].use)) =>
            LET r == loc[f].inf
            IN  /\ ~loc[f].leader /\ rec[r].refs >= 1
                /\ rec[r].ctx \notin ctxCancelled
                /\ Cardinality(GoroutinesOf(loc[f].use)) = 1
                /\ ~rec[r].done =>
                      /\ shards[loc[f].shard][loc[f].key] = r
                      /\ \A g \in GoroutinesOf(loc[f].use) :
                            /\ gor[g].pc \in {"start", "fetch"}
                            /\ gor[g].pc = "fetch" => gor[g].loadCtx = rec[r].ctx

\* C36 as stated: after the leader has left on its context, a follower of
\* its record is served as above and returns, on the completion path, the
\* very (value, error) the loader returned, with leader = false.
C36_Original ==
    /\ FollowerKeepsFetch
    /\ \A l, f \in Callers :
          (pc[f] = "idle" /\ ret[f].path = "done" /\ LeaderLeft(l, ret[f].use)) =>
              /\ ret[f].fetched /\ ~ret[f].leader
              /\ ret[f].val = ret[f].fv /\ ret[f].err = ret[f].ferr

\* C36 amended: after the leader has left on its context, a follower of its
\* record is served as above and returns, on the completion path, the
\* loader's error and, when that error is nil, the loader's value, with
\* leader = false; with an error it returns the zero value.
C36_LeaderAbandons ==
    /\ FollowerKeepsFetch
    /\ \A l, f \in Callers :
          (pc[f] = "idle" /\ ret[f].path = "done" /\ LeaderLeft(l, ret[f].use)) =>
              /\ ret[f].fetched /\ ~ret[f].leader
              /\ ret[f].err = ret[f].ferr
              /\ ret[f].val = IF ret[f].ferr = Nil THEN ret[f].fv ELSE Zero

\* The leader left on its context before the loader returned; the loader
\* then returned a value next to an error, and the follower returned the
\* zero value, leader = false and that error.
C36_Witness ==
    \E l, f \in Callers :
        /\ LeaderLeft(l, ret[f].use) /\ ~ret[l].fetched
        /\ pc[f] = "idle" /\ ret[f].path = "done" /\ ~ret[f].leader
        /\ ret[f].ferr # Nil /\ ret[f].fv # Zero
        /\ ret[f].val = Zero /\ ret[f].err = ret[f].ferr
\* The goroutines that have called the loader.
Invoked == {g \in GorIds : gor[g].pc # "start"}

\* C37: the records created, the goroutines started and the calls that
\* acquire with leader = true are one for one: the i-th goroutine belongs to
\* the i-th record, a call that gets leader = true creates the next record
\* and starts its goroutine in the same step, nothing else creates a record
\* or starts a goroutine, and a call reports the leader flag it acquired
\* with; every goroutine calls the loader once, so the loader has been
\* called once for every record but those whose goroutine has not got to
\* it yet; a call that gets leader = false creates nothing, starts nothing
\* and calls no loader.
C37_FetchPerRecord ==
    /\ [](/\ Len(gor) = nextId - 1
          /\ \A g \in GorIds : gor[g].use = g
          /\ metrics.loads = Cardinality(Invoked)
          /\ \A c, d \in Callers :
                (c # d /\ pc[c] # "idle" /\ pc[d] # "idle" /\ loc[c].use = loc[d].use)
                    => ~(loc[c].leader /\ loc[d].leader))
    /\ [][\A c \in Callers :
            (pc[c] = "idle" /\ pc'[c] # "idle") =>
                IF loc'[c].leader
                THEN /\ nextId' = nextId + 1 /\ loc'[c].use = nextId
                     /\ gor' = Append(gor, gor'[Len(gor')])
                     /\ gor'[Len(gor')].use = nextId /\ gor'[Len(gor')].pc = "start"
                ELSE nextId' = nextId /\ gor' = gor /\ metrics' = metrics]_vars
    /\ [][(nextId' # nextId \/ Len(gor') # Len(gor)) =>
            \E c \in Callers : pc[c] = "idle" /\ pc'[c] # "idle" /\ loc'[c].leader]_vars
    /\ [][\A c \in Callers :
            (pc[c] # "idle" /\ pc'[c] = "idle") =>
                /\ ret'[c].leader = loc[c].leader
                /\ nextId' = nextId /\ Len(gor') = Len(gor)
                /\ metrics'.loads = metrics.loads]_vars
    /\ [][metrics'.loads # metrics.loads =>
            /\ metrics'.loads = metrics.loads + 1
            /\ \E g \in GorIds : gor[g].pc = "start" /\ gor'[g].pc = "fetch"]_vars

\* Three calls were made and have returned, one of them with leader = false;
\* two records were created, two goroutines started, and the loader was
\* called twice.
C37_Witness ==
    /\ \A c \in Callers : pc[c] = "idle"
    /\ calls = 3 /\ nextId = 3 /\ Len(gor) = 2 /\ metrics.loads = 2
    /\ \E c, d \in Callers :
          /\ ret[c].path = "done" /\ ret[c].leader
          /\ ret[d].path = "done" /\ ~ret[d].leader
          /\ ret[c].use = 2 /\ ret[d].use = 2
====
